---- MODULE Spec2Model ----
(***************************************************************************)
(* The EncryptedSurvey contract (contracts/EncryptedSurvey.sol) as a state *)
(* machine.  One action per external function; a transaction that reverts *)
(* leaves the contract storage and the FHE access-control list untouched   *)
(* and only records its outcome in `last`.                                 *)
(***************************************************************************)
EXTENDS Integers, Sequences, FiniteSets, TLC

\* ---------------------------------------------------------------- bounds
\* Number of survey options passed to the constructor.
OptionCount == 2
\* Total number of votes (FHE.add operations) accepted over a behaviour.
MaxVotes == 2
\* Latest block timestamp explored.
MaxTime == 2
\* Longest array passed to submitBatchResponse.
MaxBatch == 2
\* Number of calls of the hook's functions over a behaviour.
MaxCalls == 3
\* Depth of recursion at which the genabi script has used up its stack.
MaxDepth == 3

\* ------------------------------------------------------------- addresses
admin == "admin"
Users == {admin, "alice", "bob"}
ZeroAddress == "zero"
\* address(this), as a holder of ACL permissions
This == "this"

Options == 0 .. (OptionCount - 1)
\* enum ViewerRole { Basic, Analyst, Admin }
ViewerRole ==
    [ Basic |-> 0, Analyst |-> 1, Admin |-> 2 ]
Times == 1 .. MaxTime

\* --------------------------------------------------------------- FHE lib
\* A clear euint32 value is written as its two 16-bit halves << high, low >>.
HalfWord == 65536

One ==
    << 0, 1 >>

\* Addition of euint32 values wraps at 2^32.
Add32(a, b) ==
    LET low == a[2] + b[2]
        high == a[1] + b[1] + (low \div HalfWord)
    IN << high % HalfWord, low % HalfWord >>

\* A ciphertext handle.  The zero handle (bytes32(0)) is the empty sequence;
\* the handle of a sum is determined by the handles of its operands, so a
\* tally's handle is the sequence of the input handles added into it.
ZeroHandle ==
    << >>

\* FHE.fromExternal(encryptedVote, proof): the verified input's handle.  The
\* proof binds the input to its creator.
FromExternal(sender, vote) ==
    << sender, vote >>

\* FHE.add(tally, voteValue): a new handle, a function of both operands.
FHEAdd(tally, voteValue) ==
    Append(tally, voteValue)

\* FHE.allow(handle, who) / FHE.allowThis(handle) on the ACL a
Allow(a, handle, who) ==
    a \cup { << handle, who >> }

VARIABLES
    now,                \* block.timestamp of the next transaction
    _encryptedTallies,  \* option index -> handle
    _hasResponded,      \* address -> BOOLEAN
    _userVotes,         \* address -> sequence of option indices
    viewers,            \* _viewerRegistry.viewers
    isAuthorized,       \* _viewerRegistry.isAuthorized
    accessLevel,        \* _viewerRegistry.accessLevel
    accessExpiry,       \* _viewerRegistry.accessExpiry
    isActive,
    surveyDeadline,
    acl,                \* persistent decrypt permissions: pairs <<handle, address>>
    last,               \* receipt of the last transaction: op, err
    accepted,           \* history: accepted submissions per address since its last withdraw
    submissions,        \* history: accepted submissions per address since deployment
    hook,               \* useEncryptedSurvey: the state fields of the hook
    calls,              \* useEncryptedSurvey: the outstanding calls of the hook's functions
    sync,               \* history: refreshes and transactions since the latest refresh began
    loader,             \* RelayerSDKLoader: window.relayerSDK, the script tags, the load() calls
    genabi              \* scripts/genabi.mjs: the readDeployment call and its environment

storage ==
    << _encryptedTallies, _hasResponded, _userVotes, viewers, isAuthorized,
       accessLevel, accessExpiry, isActive, surveyDeadline, acl >>
history ==
    << accepted, submissions >>
client ==
    << hook, calls, sync >>
tools ==
    << loader, genabi >>
vars ==
    << now, storage, last, history, client, tools >>

Range(s) ==
    { s[k] : k \in 1 .. Len(s) }

\* All sequences over S of length 0 .. n
SeqUpTo(S, n) ==
    UNION { [1 .. k -> S] : k \in 0 .. n }

RECURSIVE SumLen(_, _)
SumLen(t, S) ==
    IF S = {} THEN 0
    ELSE LET i == CHOOSE j \in S : TRUE
         IN Len(t[i]) + SumLen(t, S \ {i})

\* Number of votes added into the tallies so far.
VotesCast ==
    SumLen(_encryptedTallies, Options)

\* ------------------------------------------------------------ view functions
optionsCount ==
    OptionCount

\* The option labels passed to the constructor (deploy script).
SurveyOptions ==
    << "Very satisfied", "Satisfied", "Neutral", "Dissatisfied" >>

\* string[] _options, written by the constructor only
_options ==
    [ i \in Options |-> SurveyOptions[i + 1] ]

getOptionLabel(optionIndex) ==
    IF optionIndex >= OptionCount THEN "InvalidOption" ELSE _options[optionIndex]

hasResponded(account) ==
    account \in Users /\ _hasResponded[account]

getEncryptedTally(optionIndex) ==
    IF optionIndex >= OptionCount THEN "InvalidOption" ELSE _encryptedTallies[optionIndex]

authorizedViewers ==
    viewers

getUserVotes(user) ==
    IF user \in Users THEN _userVotes[user] ELSE << >>

\* mapping reads: an address never written reads as the default value
Authorized(viewer) ==
    viewer \in Users /\ isAuthorized[viewer]

hasValidAccess(viewer) ==
    IF ~Authorized(viewer) THEN FALSE
    ELSE IF accessExpiry[viewer] > 0 /\ now > accessExpiry[viewer] THEN FALSE
    ELSE TRUE

getViewerDetails(viewer) ==
    LET authorized == Authorized(viewer)
        viewerRole == IF viewer \in Users THEN accessLevel[viewer] ELSE 0
        viewerExpiry == IF viewer \in Users THEN accessExpiry[viewer] ELSE 0
    IN [ isAuthorized |-> authorized,
         role |-> viewerRole,
         expiry |-> viewerExpiry,
         hasAccess |-> authorized /\ (viewerExpiry = 0 \/ now <= viewerExpiry) ]

\* The first loop of getTopOptions: the options from index i on whose tally handle
\* is set, in index order.
RECURSIVE activeOptions(_)
activeOptions(i) ==
    IF i >= optionsCount THEN << >>
    ELSE IF _encryptedTallies[i] # ZeroHandle THEN << i >> \o activeOptions(i + 1)
    ELSE activeOptions(i + 1)

\* getTopOptions(count): a new array of count entries, of which the first
\* min(count, activeCount) are copied from the active options; the others keep
\* the default value 0.
getTopOptions(count) ==
    IF ~(count > 0 /\ count <= optionsCount)
    THEN [ err |-> "INVALID_COUNT", topIndices |-> << >> ]
    ELSE LET active == activeOptions(0)
             activeCount == Len(active)
         IN [ err |-> "ok",
              topIndices |-> [ k \in 1 .. count |->
                                 IF k <= activeCount THEN active[k] ELSE 0 ] ]

\* The loop of getSurveyStats and getResultSummary: one is added for each option
\* from index i on whose tally handle is set.
RECURSIVE participants(_)
participants(i) ==
    IF i >= optionsCount THEN 0
    ELSE (IF _encryptedTallies[i] # ZeroHandle THEN 1 ELSE 0) + participants(i + 1)

getSurveyStats ==
    [ totalOptions |-> optionsCount,
      activeStatus |-> IF isActive THEN 1 ELSE 0,
      deadline |-> surveyDeadline,
      participantCount |-> participants(0) ]

getResultSummary ==
    [ optionIndices |-> [ k \in 1 .. optionsCount |-> k - 1 ],
      optionLabels |-> [ k \in 1 .. optionsCount |-> getOptionLabel(k - 1) ],
      totalParticipants |-> participants(0) ]

getSurveyMetadata ==
    [ optionCount |-> optionsCount,
      active |-> isActive,
      deadline |-> surveyDeadline,
      adminAddr |-> admin,
      viewerCount |-> Len(viewers) ]

\* ------------------------------------------------------- private functions
\* _refreshViewerAccess granting to the admin only
_refreshViewerAccessAdminOnly(a, t, optionIndex) ==
    IF t[optionIndex] # ZeroHandle THEN Allow(a, t[optionIndex], admin) ELSE a

\* _refreshViewerAccess granting to the listed viewers only
_refreshViewerAccessViewersOnly(a, t, optionIndex) ==
    a \cup { << t[optionIndex], viewers[k] >> :
              k \in { j \in 1 .. Len(viewers) :
                        viewers[j] # admin /\ t[optionIndex] # ZeroHandle } }

\* _refreshViewerAccess(optionIndex) on tallies t and ACL a
_refreshViewerAccess(a, t, optionIndex) ==
    LET tally == t[optionIndex]
        a1 == IF tally # ZeroHandle THEN Allow(a, tally, admin) ELSE a
    IN a1 \cup { << tally, viewers[k] >> :
                   k \in { j \in 1 .. Len(viewers) :
                             viewers[j] # admin /\ tally # ZeroHandle } }

\* _allowTalliesForViewer(viewer) on tallies t and ACL a
_allowTalliesForViewer(a, t, viewer) ==
    a \cup { << t[i], viewer >> : i \in { j \in Options : t[j] # ZeroHandle } }

\* ------------------------------------------------------------ transactions
Receipt(op, sender, err) ==
    [ op |-> op, err |-> err ]

\* A reverted transaction: storage and ACL are rolled back.
Revert(op, sender, err) ==
    /\ last' = Receipt(op, sender, err)
    /\ UNCHANGED << now, storage, history >>

\* modifier surveyActive without the deadline test
surveyActiveIgnoringDeadline ==
    IF ~isActive THEN "SURVEY_NOT_ACTIVE" ELSE "ok"

\* modifier surveyActive: the error it raises, or "ok"
surveyActive ==
    IF ~isActive THEN "SURVEY_NOT_ACTIVE"
    ELSE IF ~(now <= surveyDeadline) THEN "SURVEY_EXPIRED"
    ELSE "ok"

\* modifier onlyAdmin, also passing a registered viewer of the Admin role tier
onlyAdminOrAdminRole(sender) ==
    IF sender # admin /\ ~(Authorized(sender) /\ accessLevel[sender] = ViewerRole.Admin)
    THEN "OnlyAdmin"
    ELSE "ok"

\* modifier onlyAdmin
onlyAdmin(sender) ==
    IF sender # admin THEN "OnlyAdmin" ELSE "ok"

\* The duplicate-response check of submitResponse and submitBatchResponse,
\* without it
AlreadyAnsweredUnchecked(sender) ==
    FALSE

AlreadyAnswered(sender) ==
    _hasResponded[sender]

\* ------------------------------------------------------------ hook state
\* The calls of the hook's functions that can be outstanding together.
CallIds ==
    { "c1", "c2" }

\* setMessage(...): the message of function `of` at stage `at`
Message(of, at) ==
    [ of |-> of, at |-> at ]

\* What refreshSurvey has read with its first group of reads.
Snapshot(tallies, listed, active, deadline) ==
    [ tallies |-> tallies, viewers |-> listed, active |-> active, deadline |-> deadline ]

\* A slot with no outstanding call.
Idle ==
    [ kind |-> "none", pc |-> "idle", arg |-> << >>, snap |-> Snapshot(<< >>, << >>, TRUE, 0) ]

\* The useState initial values; ethersSigner is FALSE while it is undefined.
HookInit ==
    /\ hook = [ ethersSigner |-> FALSE, encryptedTallies |-> << >>, decryptedTallies |-> << >>,
                authorizedViewers |-> << >>, hasResponded |-> FALSE, isActive |-> TRUE,
                surveyDeadline |-> 0, userVotes |-> << >>, isFetching |-> FALSE,
                isSubmitting |-> FALSE, isDecrypting |-> FALSE, isAuthorizing |-> FALSE,
                isBatchSubmitting |-> FALSE, message |-> Message("none", "none") ]
    /\ calls = [ c \in CallIds |-> Idle ]
    /\ sync = [ refreshed |-> FALSE, mined |-> FALSE, failed |-> FALSE, invoked |-> 0 ]

\* ------------------------------------------------------------ SDK loader state
\* The load() calls of a page.
LoadIds ==
    { "l1", "l2", "l3" }

\* A value of window.relayerSDK: `kind` is "absent" when window has no such
\* property, else "undefined", "null" or the typeof of the value; for an object,
\* each property is "missing", "null", "undefined" or the typeof of its value,
\* and __initialized__ is "missing", "true", "false" or the typeof of its value.
SDKValue(kind, initSDK, createInstance, SepoliaConfig, initialized) ==
    [ kind |-> kind, initSDK |-> initSDK, createInstance |-> createInstance,
      SepoliaConfig |-> SepoliaConfig, __initialized__ |-> initialized ]

Absent ==
    SDKValue("absent", "missing", "missing", "missing", "missing")

\* The SDK as the CDN bundle defines it, before and after initSDK().
LoadedSDK ==
    SDKValue("object", "function", "function", "object", "missing")

InitializedSDK ==
    SDKValue("object", "function", "function", "object", "true")

\* Values of the wrong shape: the property set to undefined, an object without
\* createInstance, with SepoliaConfig null, with __initialized__ a string.
MalformedSDKs ==
    { SDKValue("undefined", "missing", "missing", "missing", "missing"),
      SDKValue("object", "function", "missing", "object", "missing"),
      SDKValue("object", "function", "function", "null", "missing"),
      SDKValue("object", "function", "function", "object", "string") }

\* A fresh page: no relayerSDK property on window, no script tag, no call made.
\* `tried` records that the call has injected the fallback script.
LoaderInit ==
    loader = [ relayerSDK |-> Absent, primary |-> "none", fallback |-> "none",
               loads |-> [ l \in LoadIds |-> [ pc |-> "idle", tried |-> FALSE ] ] ]

\* The genabi script has not been started.
GenabiInit ==
    genabi = [ pc |-> "idle", platform |-> "none", files |-> {}, names |-> << >>,
               chainId |-> 0, optional |-> FALSE, depth |-> 0, runs |-> 0,
               returned |-> "none" ]

Init ==
    /\ HookInit
    /\ LoaderInit
    /\ GenabiInit
    /\ now = 1
    /\ _encryptedTallies = [ i \in Options |-> ZeroHandle ]
    /\ _hasResponded = [ a \in Users |-> FALSE ]
    /\ _userVotes = [ a \in Users |-> << >> ]
    /\ viewers = << admin >>
    /\ isAuthorized = [ a \in Users |-> a = admin ]
    /\ accessLevel = [ a \in Users |-> 0 ]
    /\ accessExpiry = [ a \in Users |-> 0 ]
    /\ isActive = TRUE
    /\ surveyDeadline = 1
    /\ acl = {}
    /\ last = Receipt("constructor", admin, "ok")
    /\ accepted = [ a \in Users |-> 0 ]
    /\ submissions = [ a \in Users |-> 0 ]

\* submitResponse adding the vote to the tally of every option
submitResponseCountingEverywhere(sender, optionIndex, encryptedVote) ==
    IF surveyActive # "ok" THEN Revert("submitResponse", sender, surveyActive)
    ELSE IF optionIndex >= OptionCount THEN Revert("submitResponse", sender, "InvalidOption")
    ELSE IF AlreadyAnswered(sender)
    THEN Revert("submitResponse", sender, "SurveyAlreadyAnswered")
    ELSE
        LET voteValue == FromExternal(sender, encryptedVote)
            t == [ j \in Options |-> FHEAdd(_encryptedTallies[j], voteValue) ]
        IN /\ VotesCast + OptionCount <= MaxVotes
           /\ _encryptedTallies' = t
           /\ _hasResponded' = [ _hasResponded EXCEPT ![sender] = TRUE ]
           /\ _userVotes' = [ _userVotes EXCEPT ![sender] = Append(@, optionIndex) ]
           /\ acl' = _refreshViewerAccess(Allow(acl, t[optionIndex], This), t, optionIndex)
           /\ accepted' = [ accepted EXCEPT ![sender] = @ + 1 ]
           /\ submissions' = [ submissions EXCEPT ![sender] = @ + 1 ]
           /\ last' = Receipt("submitResponse", sender, "ok")
           /\ UNCHANGED << now, viewers, isAuthorized, accessLevel, accessExpiry,
                           isActive, surveyDeadline >>

\* submitResponse testing the duplicate response before the option index
submitResponseAnsweredFirst(sender, optionIndex, encryptedVote) ==
    IF surveyActive # "ok" THEN Revert("submitResponse", sender, surveyActive)
    ELSE IF AlreadyAnswered(sender)
    THEN Revert("submitResponse", sender, "SurveyAlreadyAnswered")
    ELSE IF optionIndex >= OptionCount THEN Revert("submitResponse", sender, "InvalidOption")
    ELSE
        LET voteValue == FromExternal(sender, encryptedVote)
            t == [ _encryptedTallies EXCEPT
                     ![optionIndex] = FHEAdd(_encryptedTallies[optionIndex], voteValue) ]
        IN /\ VotesCast < MaxVotes
           /\ _encryptedTallies' = t
           /\ _hasResponded' = [ _hasResponded EXCEPT ![sender] = TRUE ]
           /\ _userVotes' = [ _userVotes EXCEPT ![sender] = Append(@, optionIndex) ]
           /\ acl' = _refreshViewerAccess(Allow(acl, t[optionIndex], This), t, optionIndex)
           /\ accepted' = [ accepted EXCEPT ![sender] = @ + 1 ]
           /\ submissions' = [ submissions EXCEPT ![sender] = @ + 1 ]
           /\ last' = Receipt("submitResponse", sender, "ok")
           /\ UNCHANGED << now, viewers, isAuthorized, accessLevel, accessExpiry,
                           isActive, surveyDeadline >>

submitResponse(sender, optionIndex, encryptedVote) ==
    IF surveyActive # "ok" THEN Revert("submitResponse", sender, surveyActive)
    ELSE IF optionIndex >= OptionCount THEN Revert("submitResponse", sender, "InvalidOption")
    ELSE IF AlreadyAnswered(sender)
    THEN Revert("submitResponse", sender, "SurveyAlreadyAnswered")
    ELSE
        LET voteValue == FromExternal(sender, encryptedVote)
            t == [ _encryptedTallies EXCEPT
                     ![optionIndex] = FHEAdd(_encryptedTallies[optionIndex], voteValue) ]
        IN /\ VotesCast < MaxVotes
           /\ _encryptedTallies' = t
           /\ _hasResponded' = [ _hasResponded EXCEPT ![sender] = TRUE ]
           /\ _userVotes' = [ _userVotes EXCEPT ![sender] = Append(@, optionIndex) ]
           /\ acl' = _refreshViewerAccess(Allow(acl, t[optionIndex], This), t, optionIndex)
           /\ accepted' = [ accepted EXCEPT ![sender] = @ + 1 ]
           /\ submissions' = [ submissions EXCEPT ![sender] = @ + 1 ]
           /\ last' = Receipt("submitResponse", sender, "ok")
           /\ UNCHANGED << now, viewers, isAuthorized, accessLevel, accessExpiry,
                           isActive, surveyDeadline >>

\* The loop of submitBatchResponse from position i on, over tallies t and ACL a.
RECURSIVE BatchLoop(_, _, _, _, _, _)
BatchLoop(sender, optionIndices, encryptedVotes, i, t, a) ==
    IF i > Len(optionIndices) THEN [ err |-> "ok", tallies |-> t, acl |-> a ]
    ELSE IF optionIndices[i] >= OptionCount
    THEN [ err |-> "InvalidOption", tallies |-> t, acl |-> a ]
    ELSE
        LET optionIndex == optionIndices[i]
            voteValue == FromExternal(sender, encryptedVotes[i])
            t2 == [ t EXCEPT ![optionIndex] = FHEAdd(t[optionIndex], voteValue) ]
            a2 == _refreshViewerAccess(Allow(a, t2[optionIndex], This), t2, optionIndex)
        IN BatchLoop(sender, optionIndices, encryptedVotes, i + 1, t2, a2)

\* submitBatchResponse keeping the tallies and permissions written before the
\* out-of-range index was met
submitBatchKeepingPartial(sender, optionIndices, encryptedVotes, proofs) ==
    IF surveyActive # "ok" THEN Revert("submitBatchResponse", sender, surveyActive)
    ELSE IF ~(Len(optionIndices) = Len(encryptedVotes) /\ Len(encryptedVotes) = proofs)
    THEN Revert("submitBatchResponse", sender, "ARRAY_LENGTH_MISMATCH")
    ELSE IF ~(Len(optionIndices) > 0) THEN Revert("submitBatchResponse", sender, "EMPTY_BATCH")
    ELSE IF AlreadyAnswered(sender)
    THEN Revert("submitBatchResponse", sender, "SurveyAlreadyAnswered")
    ELSE
        LET r == BatchLoop(sender, optionIndices, encryptedVotes, 1, _encryptedTallies, acl)
        IN /\ VotesCast + Len(optionIndices) <= MaxVotes
           /\ _encryptedTallies' = r.tallies
           /\ acl' = r.acl
           /\ IF r.err # "ok"
              THEN /\ last' = Receipt("submitBatchResponse", sender, r.err)
                   /\ UNCHANGED << _hasResponded, history >>
              ELSE /\ _hasResponded' = [ _hasResponded EXCEPT ![sender] = TRUE ]
                   /\ accepted' = [ accepted EXCEPT ![sender] = @ + 1 ]
                   /\ submissions' = [ submissions EXCEPT ![sender] = @ + 1 ]
                   /\ last' = Receipt("submitBatchResponse", sender, "ok")
           /\ UNCHANGED << now, _userVotes, viewers, isAuthorized, accessLevel,
                           accessExpiry, isActive, surveyDeadline >>

submitBatchResponse(sender, optionIndices, encryptedVotes, proofs) ==
    IF surveyActive # "ok" THEN Revert("submitBatchResponse", sender, surveyActive)
    ELSE IF ~(Len(optionIndices) = Len(encryptedVotes) /\ Len(encryptedVotes) = proofs)
    THEN Revert("submitBatchResponse", sender, "ARRAY_LENGTH_MISMATCH")
    ELSE IF ~(Len(optionIndices) > 0) THEN Revert("submitBatchResponse", sender, "EMPTY_BATCH")
    ELSE IF AlreadyAnswered(sender)
    THEN Revert("submitBatchResponse", sender, "SurveyAlreadyAnswered")
    ELSE
        LET r == BatchLoop(sender, optionIndices, encryptedVotes, 1, _encryptedTallies, acl)
        IN IF r.err # "ok" THEN Revert("submitBatchResponse", sender, r.err)
           ELSE /\ VotesCast + Len(optionIndices) <= MaxVotes
                /\ _encryptedTallies' = r.tallies
                /\ acl' = r.acl
                /\ _hasResponded' = [ _hasResponded EXCEPT ![sender] = TRUE ]
                /\ accepted' = [ accepted EXCEPT ![sender] = @ + 1 ]
                /\ submissions' = [ submissions EXCEPT ![sender] = @ + 1 ]
                /\ last' = Receipt("submitBatchResponse", sender, "ok")
                /\ UNCHANGED << now, _userVotes, viewers, isAuthorized, accessLevel,
                                accessExpiry, isActive, surveyDeadline >>

\* _authorizeViewerWithRole pushing the viewer whether it is listed or not
_authorizeViewerAlwaysPushing(op, sender, viewer, role, expiry) ==
    IF viewer = ZeroAddress THEN Revert(op, sender, "InvalidViewer")
    ELSE /\ isAuthorized' = [ isAuthorized EXCEPT ![viewer] = TRUE ]
         /\ viewers' = Append(viewers, viewer)
         /\ accessLevel' = [ accessLevel EXCEPT ![viewer] = role ]
         /\ accessExpiry' = IF expiry > 0 THEN [ accessExpiry EXCEPT ![viewer] = expiry ]
                            ELSE accessExpiry
         /\ acl' = _allowTalliesForViewer(acl, _encryptedTallies, viewer)
         /\ last' = Receipt(op, sender, "ok")
         /\ UNCHANGED << now, _encryptedTallies, _hasResponded, _userVotes, isActive,
                         surveyDeadline, history >>

\* _authorizeViewerWithRole(viewer, role, expiry), called by external function op
_authorizeViewerWithRole(op, sender, viewer, role, expiry) ==
    IF viewer = ZeroAddress THEN Revert(op, sender, "InvalidViewer")
    ELSE /\ isAuthorized' = [ isAuthorized EXCEPT ![viewer] = TRUE ]
         /\ viewers' = IF ~isAuthorized[viewer] THEN Append(viewers, viewer) ELSE viewers
         /\ accessLevel' = [ accessLevel EXCEPT ![viewer] = role ]
         /\ accessExpiry' = IF expiry > 0 THEN [ accessExpiry EXCEPT ![viewer] = expiry ]
                            ELSE accessExpiry
         /\ acl' = _allowTalliesForViewer(acl, _encryptedTallies, viewer)
         /\ last' = Receipt(op, sender, "ok")
         /\ UNCHANGED << now, _encryptedTallies, _hasResponded, _userVotes, isActive,
                         surveyDeadline, history >>

authorizeViewer(sender, viewer) ==
    IF onlyAdmin(sender) # "ok" THEN Revert("authorizeViewer", sender, onlyAdmin(sender))
    ELSE _authorizeViewerWithRole("authorizeViewer", sender, viewer, ViewerRole.Basic, 0)

authorizeViewerWithRole(sender, viewer, role, expiryTimestamp) ==
    IF onlyAdmin(sender) # "ok"
    THEN Revert("authorizeViewerWithRole", sender, onlyAdmin(sender))
    ELSE _authorizeViewerWithRole("authorizeViewerWithRole", sender, viewer, role,
                                  expiryTimestamp)

closeSurvey(sender) ==
    IF onlyAdmin(sender) # "ok" THEN Revert("closeSurvey", sender, onlyAdmin(sender))
    ELSE /\ isActive' = FALSE
         /\ last' = Receipt("closeSurvey", sender, "ok")
         /\ UNCHANGED << now, _encryptedTallies, _hasResponded, _userVotes, viewers,
                         isAuthorized, accessLevel, accessExpiry, surveyDeadline, acl,
                         history >>

\* reopenSurvey without the deadline test
reopenSurveyIgnoringDeadline(sender) ==
    IF onlyAdmin(sender) # "ok" THEN Revert("reopenSurvey", sender, onlyAdmin(sender))
    ELSE /\ isActive' = TRUE
         /\ last' = Receipt("reopenSurvey", sender, "ok")
         /\ UNCHANGED << now, _encryptedTallies, _hasResponded, _userVotes, viewers,
                         isAuthorized, accessLevel, accessExpiry, surveyDeadline, acl,
                         history >>

reopenSurvey(sender) ==
    IF onlyAdmin(sender) # "ok" THEN Revert("reopenSurvey", sender, onlyAdmin(sender))
    ELSE IF ~(now <= surveyDeadline) THEN Revert("reopenSurvey", sender, "DEADLINE_PASSED")
    ELSE /\ isActive' = TRUE
         /\ last' = Receipt("reopenSurvey", sender, "ok")
         /\ UNCHANGED << now, _encryptedTallies, _hasResponded, _userVotes, viewers,
                         isAuthorized, accessLevel, accessExpiry, surveyDeadline, acl,
                         history >>

\* extendDeadline accepting a deadline that is not later than the current one
extendDeadlineAnyValue(sender, newDeadline) ==
    IF onlyAdmin(sender) # "ok" THEN Revert("extendDeadline", sender, onlyAdmin(sender))
    ELSE /\ surveyDeadline' = newDeadline
         /\ last' = Receipt("extendDeadline", sender, "ok")
         /\ UNCHANGED << now, _encryptedTallies, _hasResponded, _userVotes, viewers,
                         isAuthorized, accessLevel, accessExpiry, isActive, acl, history >>

extendDeadline(sender, newDeadline) ==
    IF onlyAdmin(sender) # "ok" THEN Revert("extendDeadline", sender, onlyAdmin(sender))
    ELSE IF ~(newDeadline > surveyDeadline)
    THEN Revert("extendDeadline", sender, "NEW_DEADLINE_MUST_BE_LATER")
    ELSE /\ surveyDeadline' = newDeadline
         /\ last' = Receipt("extendDeadline", sender, "ok")
         /\ UNCHANGED << now, _encryptedTallies, _hasResponded, _userVotes, viewers,
                         isAuthorized, accessLevel, accessExpiry, isActive, acl, history >>

\* The removal loop of revokeViewer popping the array without the overwrite
PopOnly(list, viewer) ==
    IF viewer \notin Range(list) THEN list ELSE SubSeq(list, 1, Len(list) - 1)

\* The removal loop of revokeViewer: the first occurrence of viewer is overwritten
\* by the last element and the array is popped.
SwapRemove(list, viewer) ==
    IF viewer \notin Range(list) THEN list
    ELSE LET i == CHOOSE j \in 1 .. Len(list) :
                    list[j] = viewer /\ \A k \in 1 .. (j - 1) : list[k] # viewer
             moved == [ list EXCEPT ![i] = list[Len(list)] ]
         IN SubSeq(moved, 1, Len(list) - 1)

revokeViewer(sender, viewer) ==
    IF onlyAdmin(sender) # "ok" THEN Revert("revokeViewer", sender, onlyAdmin(sender))
    ELSE IF ~Authorized(viewer) THEN Revert("revokeViewer", sender, "VIEWER_NOT_AUTHORIZED")
    ELSE /\ isAuthorized' = [ isAuthorized EXCEPT ![viewer] = FALSE ]
         /\ accessLevel' = [ accessLevel EXCEPT ![viewer] = 0 ]
         /\ accessExpiry' = [ accessExpiry EXCEPT ![viewer] = 0 ]
         /\ viewers' = SwapRemove(viewers, viewer)
         /\ last' = Receipt("revokeViewer", sender, "ok")
         /\ UNCHANGED << now, _encryptedTallies, _hasResponded, _userVotes, isActive,
                         surveyDeadline, acl, history >>

\* withdrawAndResubmit keeping the caller's vote list
withdrawKeepingVotes(sender) ==
    IF surveyActive # "ok" THEN Revert("withdrawAndResubmit", sender, surveyActive)
    ELSE IF ~_hasResponded[sender]
    THEN Revert("withdrawAndResubmit", sender, "NO_PREVIOUS_VOTE")
    ELSE /\ _hasResponded' = [ _hasResponded EXCEPT ![sender] = FALSE ]
         /\ accepted' = [ accepted EXCEPT ![sender] = 0 ]
         /\ last' = Receipt("withdrawAndResubmit", sender, "ok")
         /\ UNCHANGED << now, _encryptedTallies, _userVotes, viewers, isAuthorized,
                         accessLevel, accessExpiry, isActive, surveyDeadline, acl,
                         submissions >>

\* withdrawAndResubmit resetting the tallies of the options the caller voted for
withdrawResettingTallies(sender) ==
    IF surveyActive # "ok" THEN Revert("withdrawAndResubmit", sender, surveyActive)
    ELSE IF ~_hasResponded[sender]
    THEN Revert("withdrawAndResubmit", sender, "NO_PREVIOUS_VOTE")
    ELSE /\ _hasResponded' = [ _hasResponded EXCEPT ![sender] = FALSE ]
         /\ _userVotes' = [ _userVotes EXCEPT ![sender] = << >> ]
         /\ _encryptedTallies' = [ i \in Options |->
                                     IF i \in Range(_userVotes[sender]) THEN ZeroHandle
                                     ELSE _encryptedTallies[i] ]
         /\ accepted' = [ accepted EXCEPT ![sender] = 0 ]
         /\ last' = Receipt("withdrawAndResubmit", sender, "ok")
         /\ UNCHANGED << now, viewers, isAuthorized, accessLevel, accessExpiry, isActive,
                         surveyDeadline, acl, submissions >>

withdrawAndResubmit(sender) ==
    IF surveyActive # "ok" THEN Revert("withdrawAndResubmit", sender, surveyActive)
    ELSE IF ~_hasResponded[sender]
    THEN Revert("withdrawAndResubmit", sender, "NO_PREVIOUS_VOTE")
    ELSE /\ _hasResponded' = [ _hasResponded EXCEPT ![sender] = FALSE ]
         /\ _userVotes' = [ _userVotes EXCEPT ![sender] = << >> ]
         /\ accepted' = [ accepted EXCEPT ![sender] = 0 ]
         /\ last' = Receipt("withdrawAndResubmit", sender, "ok")
         /\ UNCHANGED << now, _encryptedTallies, viewers, isAuthorized, accessLevel,
                         accessExpiry, isActive, surveyDeadline, acl, submissions >>

\* The chain produces a block with a later timestamp.
Tick ==
    /\ now < MaxTime
    /\ now' = now + 1
    /\ UNCHANGED << storage, last, history >>

\* ------------------------------------------------------------------ inputs
\* Option indices a caller may pass: the valid ones and one out of range.
IndexArgs ==
    0 .. OptionCount

\* Well-formed batches (three arrays of one length, the empty batch included):
\* the index arrays are the sequences of valid indices and those ending with the
\* first out-of-range index; every vote of a batch carries the same value.
WellFormedBatches(vals) ==
    { << is, [ k \in 1 .. Len(is) |-> v ], Len(is) >> :
        is \in SeqUpTo(Options, MaxBatch)
              \cup { Append(p, OptionCount) : p \in SeqUpTo(Options, MaxBatch - 1) },
        v \in vals }

\* Batches whose three arrays differ in length: the votes, the proofs or the
\* indices are one short.
MalformedBatches ==
    { << << 0 >>, << >>, 1 >>, << << 0 >>, << One >>, 0 >>, << << >>, << One >>, 1 >> }

\* The caller has seen the outcome of its transaction (the receipt, or the error
\* of a revert); the next transaction is sent after that.
TxSettled ==
    /\ last.op # "none"
    /\ last' = Receipt("none", admin, "ok")
    /\ UNCHANGED << now, storage, history >>

\* No transaction is outstanding: the next one can be sent.
Ready ==
    last.op = "none"

\* One step: a transaction drawn from the input sets of `in`, its outcome being
\* seen, or a later block.
Step(in) ==
    \/ \E s \in in.voters, i \in IndexArgs, v \in in.vals :
          Ready /\ submitResponse(s, i, v) /\ UNCHANGED << client, tools >>
    \/ \E s \in in.voters, b \in WellFormedBatches(in.vals) \cup MalformedBatches :
          Ready /\ submitBatchResponse(s, b[1], b[2], b[3]) /\ UNCHANGED << client, tools >>
    \/ \E s \in in.senders, v \in in.viewers : Ready /\ authorizeViewer(s, v) /\ UNCHANGED << client, tools >>
    \/ \E s \in in.senders, v \in in.viewers, r \in in.roles, e \in in.expiries :
          Ready /\ authorizeViewerWithRole(s, v, r, e) /\ UNCHANGED << client, tools >>
    \/ \E s \in in.senders : Ready /\ closeSurvey(s) /\ UNCHANGED << client, tools >>
    \/ \E s \in in.senders : Ready /\ reopenSurvey(s) /\ UNCHANGED << client, tools >>
    \/ \E s \in in.senders, d \in Times : Ready /\ extendDeadline(s, d) /\ UNCHANGED << client, tools >>
    \/ \E s \in in.senders, v \in in.viewers : Ready /\ revokeViewer(s, v) /\ UNCHANGED << client, tools >>
    \/ \E s \in in.voters : Ready /\ withdrawAndResubmit(s) /\ UNCHANGED << client, tools >>
    \/ TxSettled /\ UNCHANGED << client, tools >>
    \/ Ready /\ Tick /\ UNCHANGED << client, tools >>

\* Two respondents; the registry calls name the admin's own entry or the zero
\* address.
VotingInputs ==
    [ voters |-> { "alice", "bob" }, vals |-> { One }, senders |-> Users,
      viewers |-> { admin, ZeroAddress }, roles |-> { ViewerRole.Basic },
      expiries |-> { 0 } ]

\* The admin and one viewer are authorized and revoked in every order; one
\* respondent.
AccessInputs ==
    [ voters |-> { "alice" }, vals |-> { One }, senders |-> Users,
      viewers |-> { admin, "bob", ZeroAddress }, roles |-> { ViewerRole.Basic },
      expiries |-> { 0 } ]

\* The admin's own entry with two role tiers and an expiry that passes at the
\* second block; one respondent.
RoleInputs ==
    [ voters |-> { "alice" }, vals |-> { One }, senders |-> Users,
      viewers |-> { admin, ZeroAddress },
      roles |-> { ViewerRole.Basic, ViewerRole.Admin }, expiries |-> { 0, 1 } ]

Next ==
    Step(VotingInputs)

Spec ==
    Init /\ [][Next]_vars

NextAccess ==
    Step(AccessInputs)

SpecAccess ==
    Init /\ [][NextAccess]_vars

NextRoles ==
    Step(RoleInputs)

SpecRoles ==
    Init /\ [][NextRoles]_vars

\* The admin and one viewer, authorized with the Basic or the Admin role tier and
\* revoked in every order, every address calling the admin functions; one
\* respondent.
AdminInputs ==
    [ voters |-> { "alice" }, vals |-> { One }, senders |-> Users,
      viewers |-> { admin, "bob", ZeroAddress }, roles |-> { ViewerRole.Admin },
      expiries |-> { 0 } ]

NextAdmin ==
    Step(AdminInputs)

SpecAdmin ==
    Init /\ [][NextAdmin]_vars

\* One respondent who encrypts the value it likes: 1 or 2^32 - 1.
ValueInputs ==
    [ voters |-> { "alice" },
      vals |-> { One, << HalfWord - 1, HalfWord - 1 >> },
      senders |-> { admin }, viewers |-> { admin },
      roles |-> { ViewerRole.Basic }, expiries |-> { 0 } ]

NextValues ==
    Step(ValueInputs)

SpecValues ==
    Init /\ [][NextValues]_vars

\* The admin gives one viewer an entry without expiry or with an expiry that
\* passes at the second block; one respondent.
ExpiryInputs ==
    [ voters |-> { "alice" }, vals |-> { One }, senders |-> { admin },
      viewers |-> { "bob" }, roles |-> { ViewerRole.Basic }, expiries |-> { 0, 1 } ]

NextExpiry ==
    Step(ExpiryInputs)

SpecExpiry ==
    Init /\ [][NextExpiry]_vars

\* The admin authorizes and revokes two viewers besides its own entry, so that
\* three addresses can be listed; one respondent.
OrderInputs ==
    [ voters |-> { "alice" }, vals |-> { One }, senders |-> { admin },
      viewers |-> Users, roles |-> { ViewerRole.Basic }, expiries |-> { 0 } ]

NextOrder ==
    Step(OrderInputs)

SpecOrder ==
    Init /\ [][NextOrder]_vars

\* ------------------------------------------------------------ hook functions
\* getAllEncryptedTallies(): the tallies as an array
getAllEncryptedTallies ==
    [ i \in 1 .. OptionCount |-> _encryptedTallies[i - 1] ]

RECURSIVE Plain(_)
\* instance.userDecrypt: the clear value of a tally, the sum of the votes added
\* into it
Plain(handle) ==
    IF Len(handle) = 0 THEN << 0, 0 >> ELSE Add32(Head(handle)[2], Plain(Tail(handle)))

\* A handle missing from the result of userDecrypt is shown as null.
Null ==
    "null"

\* The hook functions that send a transaction.
MutatingKinds ==
    { "submitResponse", "submitBatchResponse", "authorizeViewer", "closeSurvey",
      "reopenSurvey", "extendDeadline", "withdrawAndResubmit", "revokeViewer" }

\* The two that encrypt a vote first.
SubmissionKinds ==
    { "submitResponse", "submitBatchResponse" }

\* The busy flag a function sets when it passes its guards and clears in its
\* finally block; the admin actions and withdrawAndResubmit have none.
Flag(kind) ==
    CASE kind = "submitResponse" -> "isSubmitting"
      [] kind = "submitBatchResponse" -> "isBatchSubmitting"
      [] kind = "decryptTallies" -> "isDecrypting"
      [] kind = "authorizeViewer" -> "isAuthorizing"
      [] OTHER -> "none"

SetFlag(h, kind, value) ==
    IF Flag(kind) = "none" THEN h ELSE [ h EXCEPT ![Flag(kind)] = value ]

\* The positions inside refreshSurvey: awaiting the first group of reads, the
\* option labels, the viewer details, hasResponded, getUserVotes.
RefreshPcs ==
    { "read", "write", "details", "responded", "votes" }

Refreshing(c) ==
    calls[c].pc \in RefreshPcs

\* The early returns of a function called with `arg` (the empty sequence when
\* no option is selected or no argument is passed).  The contract address, the
\* public client, the FHE instance and the wallet address are there from the
\* start; the signer is there once resolveSigner has set it.
Guard(kind, arg) ==
    IF kind # "refreshSurvey" /\ ~hook.ethersSigner THEN "disconnected"
    ELSE IF kind \in SubmissionKinds /\ Len(arg) = 0 THEN "invalid"
    ELSE IF kind = "decryptTallies"
            /\ \A i \in DOMAIN hook.encryptedTallies : hook.encryptedTallies[i] = ZeroHandle
         THEN "empty"
    ELSE "ok"

\* The first await of a function that has passed its guards.
FirstPc(kind) ==
    CASE kind \in SubmissionKinds -> "encrypt"
      [] kind = "decryptTallies" -> "sign"
      [] OTHER -> "send"

\* refreshSurvey begins (call c): a new group of overlapping refreshes starts
\* when no other refresh is outstanding.
StartSync(c) ==
    [ sync EXCEPT !.refreshed = TRUE, !.mined = FALSE,
                  !.failed = sync.failed /\ \E d \in CallIds \ { c } : Refreshing(d) ]

\* The effect that resolves the signer of the connected wallet.
resolveSigner ==
    /\ ~hook.ethersSigner
    /\ hook' = [ hook EXCEPT !.ethersSigner = TRUE ]
    /\ UNCHANGED << now, storage, last, history, calls, sync >>

\* A call of a hook function: the guards, then the flag and the first message.
Invoke(c, kind, arg) ==
    /\ calls[c].pc = "idle"
    /\ sync.invoked < MaxCalls
    /\ UNCHANGED << now, storage, last, history >>
    /\ sync' = [ (IF kind = "refreshSurvey" THEN StartSync(c) ELSE sync) EXCEPT !.invoked = @ + 1 ]
    /\ LET g == Guard(kind, arg)
       IN CASE kind = "refreshSurvey" ->
                 /\ hook' = [ hook EXCEPT !.isFetching = TRUE ]
                 /\ calls' = [ calls EXCEPT ![c] = [ Idle EXCEPT !.kind = kind, !.pc = "read" ] ]
            [] kind # "refreshSurvey" /\ g = "empty" ->
                 /\ hook' = [ hook EXCEPT
                                !.decryptedTallies = [ i \in DOMAIN hook.encryptedTallies |-> << 0, 0 >> ],
                                !.message = Message(kind, g) ]
                 /\ UNCHANGED calls
            [] kind # "refreshSurvey" /\ g \in { "disconnected", "invalid" } ->
                 /\ hook' = [ hook EXCEPT !.message = Message(kind, g) ]
                 /\ UNCHANGED calls
            [] OTHER ->
                 /\ hook' = [ SetFlag(hook, kind, TRUE) EXCEPT !.message = Message(kind, "started") ]
                 /\ calls' = [ calls EXCEPT ![c] =
                                 [ kind |-> kind, pc |-> FirstPc(kind), arg |-> arg,
                                   snap |-> [ Idle.snap EXCEPT !.tallies = hook.encryptedTallies ] ] ]

\* input.encrypt() has resolved.
Encrypted(c) ==
    /\ calls[c].pc = "encrypt"
    /\ hook' = [ hook EXCEPT !.message = Message(calls[c].kind, "submitting") ]
    /\ calls' = [ calls EXCEPT ![c].pc = "send" ]
    /\ UNCHANGED << now, storage, last, history, sync >>

\* contract.X(...) has resolved and refreshSurvey is called at once, without
\* awaiting tx.wait().
TxSentThenRefresh(c) ==
    /\ calls[c].pc = "send"
    /\ hook' = [ hook EXCEPT !.isFetching = TRUE ]
    /\ calls' = [ calls EXCEPT ![c].pc = "read" ]
    /\ sync' = StartSync(c)
    /\ UNCHANGED << now, storage, last, history >>

\* contract.X(...) has resolved: the transaction is sent.
TxSent(c) ==
    /\ calls[c].pc = "send"
    /\ calls' = [ calls EXCEPT ![c].pc = "wait" ]
    /\ UNCHANGED << now, storage, last, history, hook, sync >>

\* The contract call a hook function makes from `account`; a submission carries
\* the encrypted value 1 per option.  The batch passes the single inputProof
\* where the contract takes an array: how many proofs the contract sees is the
\* encoder's choice, `proofs`.
Transaction(kind, account, arg, proofs) ==
    CASE kind = "submitResponse" -> submitResponse(account, arg[1], One)
      [] kind = "submitBatchResponse" ->
            submitBatchResponse(account, arg, [ k \in 1 .. Len(arg) |-> One ], proofs)
      [] kind = "authorizeViewer" ->
            authorizeViewer(account, IF Len(arg) = 0 THEN account ELSE arg[1])
      [] kind = "closeSurvey" -> closeSurvey(account)
      [] kind = "reopenSurvey" -> reopenSurvey(account)
      [] kind = "extendDeadline" -> extendDeadline(account, arg[1])
      [] kind = "withdrawAndResubmit" -> withdrawAndResubmit(account)
      [] kind = "revokeViewer" -> revokeViewer(account, arg[1])

\* The transaction of call c is included in a block: mined, or reverted.
TxMined(c, account, proofs) ==
    /\ calls[c].pc = "wait"
    /\ Ready
    /\ Transaction(calls[c].kind, account, calls[c].arg, proofs)
    /\ calls' = [ calls EXCEPT ![c].pc = IF last'.err = "ok" THEN "mined" ELSE "reverted" ]
    /\ sync' = [ sync EXCEPT !.mined = TRUE ]
    /\ UNCHANGED hook

\* The finally block of a function, and the end of the call.
Finish(c, h) ==
    /\ hook' = SetFlag(h, calls[c].kind, FALSE)
    /\ calls' = [ calls EXCEPT ![c] = Idle ]

\* tx.wait() has resolved: on success the function calls refreshSurvey, on a
\* revert its catch block runs.
WaitResolved(c) ==
    /\ calls[c].pc \in { "mined", "reverted" }
    /\ UNCHANGED << now, storage, last, history >>
    /\ IF calls[c].pc = "mined"
       THEN /\ hook' = [ hook EXCEPT !.message = Message(calls[c].kind, "succeeded"),
                                     !.isFetching = TRUE ]
            /\ calls' = [ calls EXCEPT ![c].pc = "read" ]
            /\ sync' = StartSync(c)
       ELSE /\ Finish(c, [ hook EXCEPT !.message = Message(calls[c].kind, "failed") ])
            /\ UNCHANGED sync

\* An awaited call throws and the flag is cleared at the end of the try block
\* only: the catch block runs, the flag stays set.
CallFailsKeepingFlag(c) ==
    /\ calls[c].pc \in { "encrypt", "send", "wait", "sign", "decrypt" }
    /\ hook' = [ hook EXCEPT !.message = Message(calls[c].kind, "failed") ]
    /\ calls' = [ calls EXCEPT ![c] = Idle ]
    /\ UNCHANGED << now, storage, last, history, sync >>

\* An awaited call of the SDK, the signer or the provider throws: the catch
\* block, then the finally block.
CallFails(c) ==
    /\ calls[c].pc \in { "encrypt", "send", "wait", "sign", "decrypt" }
    /\ Finish(c, [ hook EXCEPT !.message = Message(calls[c].kind, "failed") ])
    /\ UNCHANGED << now, storage, last, history, sync >>

\* refreshSurvey: the first group of reads resolves.
RefreshRead(c) ==
    /\ calls[c].pc = "read"
    /\ calls' = [ calls EXCEPT ![c].pc = "write",
                               ![c].snap = Snapshot(getAllEncryptedTallies, authorizedViewers,
                                                    isActive, surveyDeadline) ]
    /\ UNCHANGED << now, storage, last, history, hook, sync >>

\* refreshSurvey: the option labels resolve; the tallies and the viewers are
\* set from the first group of reads.
RefreshWrite(c) ==
    /\ calls[c].pc = "write"
    /\ hook' = [ hook EXCEPT !.encryptedTallies = calls[c].snap.tallies,
                             !.authorizedViewers = calls[c].snap.viewers ]
    /\ calls' = [ calls EXCEPT ![c].pc = "details" ]
    /\ UNCHANGED << now, storage, last, history, sync >>

\* refreshSurvey: the viewer details resolve; isActive and surveyDeadline are
\* set from the first group of reads.
RefreshDetails(c) ==
    /\ calls[c].pc = "details"
    /\ hook' = [ hook EXCEPT !.isActive = calls[c].snap.active,
                             !.surveyDeadline = calls[c].snap.deadline ]
    /\ calls' = [ calls EXCEPT ![c].pc = "responded" ]
    /\ UNCHANGED << now, storage, last, history, sync >>

\* refreshSurvey returns: isFetching is cleared, and the function that awaited
\* it runs its finally block.
RefreshDone(c, h) ==
    Finish(c, [ h EXCEPT !.isFetching = FALSE ])

\* refreshSurvey: hasResponded(address) resolves.
RefreshResponded(c, account) ==
    /\ calls[c].pc = "responded"
    /\ IF hasResponded(account)
       THEN /\ hook' = [ hook EXCEPT !.hasResponded = TRUE ]
            /\ calls' = [ calls EXCEPT ![c].pc = "votes" ]
       ELSE RefreshDone(c, [ hook EXCEPT !.hasResponded = FALSE, !.userVotes = << >> ])
    /\ UNCHANGED << now, storage, last, history, sync >>

\* refreshSurvey: getUserVotes(address) resolves.
RefreshVotes(c, account) ==
    /\ calls[c].pc = "votes"
    /\ RefreshDone(c, [ hook EXCEPT !.userVotes = getUserVotes(account) ])
    /\ UNCHANGED << now, storage, last, history, sync >>

\* refreshSurvey: a read throws.
RefreshFails(c) ==
    /\ Refreshing(c)
    /\ RefreshDone(c, [ hook EXCEPT !.message = Message("refreshSurvey", "failed") ])
    /\ sync' = [ sync EXCEPT !.failed = TRUE ]
    /\ UNCHANGED << now, storage, last, history >>

\* decryptTallies: loadOrSign resolves, with a signature or without.
Signed(c, signature) ==
    /\ calls[c].pc = "sign"
    /\ IF signature
       THEN /\ hook' = [ hook EXCEPT !.message = Message("decryptTallies", "decrypting") ]
            /\ calls' = [ calls EXCEPT ![c].pc = "decrypt" ]
       ELSE Finish(c, [ hook EXCEPT !.message = Message("decryptTallies", "unsigned") ])
    /\ UNCHANGED << now, storage, last, history, sync >>

\* decryptTallies storing null for the zero handles too
DecryptedWithoutZeros(c, account, known) ==
    /\ calls[c].pc = "decrypt"
    /\ LET tallies == calls[c].snap.tallies
           requests == Range(tallies) \ { ZeroHandle }
       IN /\ \A h \in requests : << h, account >> \in acl
          /\ known \subseteq requests
          /\ Finish(c, [ hook EXCEPT
                           !.decryptedTallies =
                               [ i \in DOMAIN tallies |->
                                   IF tallies[i] \in known THEN Plain(tallies[i])
                                   ELSE Null ],
                           !.message = Message("decryptTallies", "succeeded") ])
    /\ UNCHANGED << now, storage, last, history, sync >>

\* decryptTallies: userDecrypt resolves with the clear values of the handles
\* in `known`; the account holds the permission on every requested handle.
Decrypted(c, account, known) ==
    /\ calls[c].pc = "decrypt"
    /\ LET tallies == calls[c].snap.tallies
           requests == Range(tallies) \ { ZeroHandle }
       IN /\ \A h \in requests : << h, account >> \in acl
          /\ known \subseteq requests
          /\ Finish(c, [ hook EXCEPT
                           !.decryptedTallies =
                               [ i \in DOMAIN tallies |->
                                   IF tallies[i] = ZeroHandle THEN << 0, 0 >>
                                   ELSE IF tallies[i] \in known THEN Plain(tallies[i])
                                   ELSE Null ],
                           !.message = Message("decryptTallies", "succeeded") ])
    /\ UNCHANGED << now, storage, last, history, sync >>

\* One step of the hook used from `in.account`: a call of one of its functions
\* or the resolution of an awaited promise.  The hook reads no timestamp: the
\* block time stays where it is.
HookStep(in) ==
    \/ resolveSigner /\ UNCHANGED tools
    \/ \E c \in in.slots, k \in in.kinds : \E a \in in.args[k] : Invoke(c, k, a) /\ UNCHANGED tools
    \/ \E c \in in.slots : Encrypted(c) /\ UNCHANGED tools
    \/ \E c \in in.slots : TxSent(c) /\ UNCHANGED tools
    \/ \E c \in in.slots, n \in in.proofs : TxMined(c, in.account, n) /\ UNCHANGED tools
    \/ \E c \in in.slots : WaitResolved(c) /\ UNCHANGED tools
    \/ \E c \in in.slots : CallFails(c) /\ UNCHANGED tools
    \/ \E c \in in.slots : RefreshRead(c) /\ UNCHANGED tools
    \/ \E c \in in.slots : RefreshWrite(c) /\ UNCHANGED tools
    \/ \E c \in in.slots : RefreshDetails(c) /\ UNCHANGED tools
    \/ \E c \in in.slots : RefreshResponded(c, in.account) /\ UNCHANGED tools
    \/ \E c \in in.slots : RefreshVotes(c, in.account) /\ UNCHANGED tools
    \/ \E c \in in.slots : RefreshFails(c) /\ UNCHANGED tools
    \/ \E c \in in.slots, signature \in BOOLEAN : Signed(c, signature) /\ UNCHANGED tools
    \/ \E c \in in.slots : \E known \in SUBSET Range(calls[c].snap.tallies) :
          Decrypted(c, in.account, known) /\ UNCHANGED tools
    \/ TxSettled /\ UNCHANGED << client, tools >>

\* The admin's browser: every function of the hook, one call at a time.
HookInputs ==
    [ account |-> admin, slots |-> { "c1" },
      kinds |-> MutatingKinds \cup { "refreshSurvey", "decryptTallies" },
      args |-> [ submitResponse |-> { << 0 >>, << >> },
                 submitBatchResponse |-> { << 0 >>, << >> },
                 authorizeViewer |-> { << "bob" >>, << >> },
                 closeSurvey |-> { << >> },
                 reopenSurvey |-> { << >> },
                 extendDeadline |-> { << 2 >> },
                 withdrawAndResubmit |-> { << >> },
                 revokeViewer |-> { << "bob" >> },
                 refreshSurvey |-> { << >> },
                 decryptTallies |-> { << >> } ],
      proofs |-> { 1 } ]

\* Overlapping calls: a second call is made while the first is outstanding.
OverlapInputs ==
    [ account |-> admin, slots |-> CallIds,
      kinds |-> { "submitResponse", "refreshSurvey", "decryptTallies" },
      args |-> [ submitResponse |-> { << 0 >> },
                 refreshSurvey |-> { << >> },
                 decryptTallies |-> { << >> } ],
      proofs |-> { 1 } ]

NextHook ==
    HookStep(HookInputs)

SpecHook ==
    Init /\ [][NextHook]_vars

NextOverlap ==
    HookStep(OverlapInputs)

SpecOverlap ==
    Init /\ [][NextOverlap]_vars

\* The admin's browser submitting batches of no, one and two options, one call at
\* a time.
BatchInputs ==
    [ account |-> admin, slots |-> { "c1" },
      kinds |-> { "submitBatchResponse", "refreshSurvey", "decryptTallies" },
      args |-> [ submitBatchResponse |-> { << >>, << 0 >>, << 0, 1 >> },
                 refreshSurvey |-> { << >> },
                 decryptTallies |-> { << >> } ],
      proofs |-> { 1 } ]

NextBatch ==
    HookStep(BatchInputs)

SpecBatch ==
    Init /\ [][NextBatch]_vars

\* ------------------------------------------------------------ SDK loader
\* objHasProperty(obj, propertyName, propertyType)
objHasProperty(o, propertyName, propertyType) ==
    IF o[propertyName] = "missing" THEN FALSE
    ELSE IF o[propertyName] \in { "null", "undefined" } THEN FALSE
    ELSE o[propertyName] = propertyType

\* isFhevmRelayerSDKType without the test of createInstance
isFhevmRelayerSDKTypeWithoutCreateInstance(o) ==
    IF o.kind \in { "absent", "undefined" } THEN FALSE
    ELSE IF o.kind = "null" THEN FALSE
    ELSE IF o.kind # "object" THEN FALSE
    ELSE IF ~objHasProperty(o, "initSDK", "function") THEN FALSE
    ELSE IF ~objHasProperty(o, "SepoliaConfig", "object") THEN FALSE
    ELSE IF o.__initialized__ # "missing" /\ o.__initialized__ \notin { "true", "false" }
    THEN FALSE
    ELSE TRUE

\* isFhevmRelayerSDKType(o); reading a property that window lacks gives undefined
isFhevmRelayerSDKType(o) ==
    IF o.kind \in { "absent", "undefined" } THEN FALSE
    ELSE IF o.kind = "null" THEN FALSE
    ELSE IF o.kind # "object" THEN FALSE
    ELSE IF ~objHasProperty(o, "initSDK", "function") THEN FALSE
    ELSE IF ~objHasProperty(o, "createInstance", "function") THEN FALSE
    ELSE IF ~objHasProperty(o, "SepoliaConfig", "object") THEN FALSE
    ELSE IF o.__initialized__ # "missing" /\ o.__initialized__ \notin { "true", "false" }
    THEN FALSE
    ELSE TRUE

\* isFhevmWindowType(window): window has a relayerSDK property of the right shape.
isFhevmWindowType(ld) ==
    IF ld.relayerSDK.kind = "absent" THEN FALSE
    ELSE isFhevmRelayerSDKType(ld.relayerSDK)

\* What a script leaves on window when it has run: the SDK, a value of the wrong
\* shape, or nothing (Absent: the property stays as it was).
ScriptResults ==
    { LoadedSDK, InitializedSDK, Absent } \cup MalformedSDKs

Ran(ld, result) ==
    IF result = Absent THEN ld ELSE [ ld EXCEPT !.relayerSDK = result ]

\* The promise of call l is settled.
Settle(ld, l, outcome) ==
    [ ld EXCEPT !.loads[l].pc = outcome ]

\* _loadFallbackScript for call l: a fallback script tag that exists already
\* settles the promise at once (reject, then a resolve that has no effect);
\* otherwise the tag is injected.
_loadFallbackScript(ld, l) ==
    IF ld.fallback # "none"
    THEN Settle(ld, l, IF isFhevmWindowType(ld) THEN "resolved" ELSE "rejected")
    ELSE [ ld EXCEPT !.fallback = "loading", !.loads[l] = [ pc |-> "fallback", tried |-> TRUE ] ]

\* _loadWithFallback for call l: the same test on the primary script tag.
_loadWithFallback(ld, l) ==
    IF ld.primary # "none"
    THEN Settle(ld, l, IF isFhevmWindowType(ld) THEN "resolved" ELSE "rejected")
    ELSE [ ld EXCEPT !.primary = "loading", !.loads[l].pc = "primary" ]

\* load(): with a relayerSDK property on window it resolves or throws, without
\* one it loads the scripts.
load(l) ==
    /\ loader.loads[l].pc = "idle"
    /\ loader' = IF loader.relayerSDK.kind # "absent"
                 THEN Settle(loader, l, IF isFhevmRelayerSDKType(loader.relayerSDK)
                                        THEN "resolved" ELSE "thrown")
                 ELSE _loadWithFallback(loader, l)
    /\ UNCHANGED << now, storage, last, history, client, genabi >>

\* primaryScript.onload of the call that injected it.
primaryOnload(l, result) ==
    /\ loader.loads[l].pc = "primary"
    /\ LET ld == Ran([ loader EXCEPT !.primary = "loaded" ], result)
       IN loader' = IF isFhevmWindowType(ld) THEN Settle(ld, l, "resolved")
                    ELSE _loadFallbackScript(ld, l)
    /\ UNCHANGED << now, storage, last, history, client, genabi >>

\* primaryScript.onerror
primaryOnerror(l) ==
    /\ loader.loads[l].pc = "primary"
    /\ loader' = _loadFallbackScript([ loader EXCEPT !.primary = "error" ], l)
    /\ UNCHANGED << now, storage, last, history, client, genabi >>

\* fallbackScript.onload
fallbackOnload(l, result) ==
    /\ loader.loads[l].pc = "fallback"
    /\ LET ld == Ran([ loader EXCEPT !.fallback = "loaded" ], result)
       IN loader' = Settle(ld, l, IF isFhevmWindowType(ld) THEN "resolved" ELSE "rejected")
    /\ UNCHANGED << now, storage, last, history, client, genabi >>

\* fallbackScript.onerror
fallbackOnerror(l) ==
    /\ loader.loads[l].pc = "fallback"
    /\ loader' = Settle([ loader EXCEPT !.fallback = "error" ], l, "rejected")
    /\ UNCHANGED << now, storage, last, history, client, genabi >>

NextLoader ==
    \/ \E l \in LoadIds : load(l)
    \/ \E l \in LoadIds, result \in ScriptResults : primaryOnload(l, result)
    \/ \E l \in LoadIds : primaryOnerror(l)
    \/ \E l \in LoadIds, result \in ScriptResults : fallbackOnload(l, result)
    \/ \E l \in LoadIds : fallbackOnerror(l)

SpecLoader ==
    Init /\ [][NextLoader]_vars

\* ------------------------------------------------------------ genabi script
\* The chain ids genabi.mjs reads deployments for.
HardhatChainId == 31337
SepoliaChainId == 11155111

\* The directories under deployments/ that may hold the contract's json file.
ChainNames ==
    { "hardhat", "localhost", "sepolia" }

\* The calls of readDeployment: the two the script makes, and the same names
\* with the other chain id and the other value of optional.
GenabiInputs ==
    [ platforms |-> { "linux", "win32" },
      files |-> SUBSET ChainNames,
      chainNames |-> { << "hardhat", "localhost" >>, << "sepolia" >> },
      chainIds |-> { HardhatChainId, SepoliaChainId },
      optional |-> BOOLEAN ]

\* What the deploy script does when it is run: it fails, it writes
\* deployments/localhost, or it ends without error and without a deployment.
ScriptOutcomes ==
    { "failed", "deployed", "nothing" }

\* The script is started on a platform, with the deployment files present, and
\* calls readDeployment(chainNames, chainId, CONTRACT_NAME, optional).
genabiStart(platform, files, chainNames, chainId, optional) ==
    /\ genabi.pc = "idle"
    /\ genabi' = [ pc |-> "readDeployment", platform |-> platform, files |-> files,
                   names |-> chainNames, chainId |-> chainId, optional |-> optional,
                   depth |-> 0, runs |-> 0, returned |-> "none" ]
    /\ UNCHANGED << now, storage, last, history, client, loader >>

\* readDeployment up to its return, its exit or its call of deployOnHardhatNode:
\* the first name with a deployment file is returned.
readDeployment ==
    /\ genabi.pc = "readDeployment"
    /\ LET found == { k \in 1 .. Len(genabi.names) : genabi.names[k] \in genabi.files }
       IN genabi' =
             IF found # {}
             THEN [ genabi EXCEPT
                      !.pc = "returned",
                      !.returned = genabi.names[CHOOSE k \in found : \A j \in found : k <= j] ]
             ELSE IF genabi.chainId = HardhatChainId
             THEN [ genabi EXCEPT !.pc = "deployOnHardhatNode" ]
             ELSE IF ~genabi.optional THEN [ genabi EXCEPT !.pc = "exited" ]
             ELSE [ genabi EXCEPT !.pc = "returned", !.returned = "undefined" ]
    /\ UNCHANGED << now, storage, last, history, client, loader >>

\* The recursive call `return readDeployment(names, chainId, contractName,
\* optional)`; with the stack used up it throws a RangeError instead.
Recurse(g) ==
    IF g.depth < MaxDepth THEN [ g EXCEPT !.pc = "readDeployment", !.depth = @ + 1 ]
    ELSE [ g EXCEPT !.pc = "RangeError" ]

\* deployOnHardhatNode, then the recursive call of readDeployment: on win32 the
\* script is skipped; elsewhere execSync runs it, and a failure exits.
deployOnHardhatNode(outcome) ==
    /\ genabi.pc = "deployOnHardhatNode"
    /\ genabi' =
          IF genabi.platform = "win32" THEN Recurse(genabi)
          ELSE LET ran == [ genabi EXCEPT !.runs = @ + 1 ]
               IN CASE outcome = "failed" -> [ ran EXCEPT !.pc = "exited" ]
                    [] outcome = "deployed" ->
                          Recurse([ ran EXCEPT !.files = @ \cup { "localhost" } ])
                    [] outcome = "nothing" -> Recurse(ran)
    /\ UNCHANGED << now, storage, last, history, client, loader >>

NextGenabi ==
    \/ \E p \in GenabiInputs.platforms, f \in GenabiInputs.files,
          n \in GenabiInputs.chainNames, i \in GenabiInputs.chainIds,
          o \in GenabiInputs.optional : genabiStart(p, f, n, i, o)
    \/ readDeployment
    \/ \E outcome \in ScriptOutcomes : deployOnHardhatNode(outcome)

SpecGenabi ==
    Init /\ [][NextGenabi]_vars

\* ------------------------------------------------------------------ claims
Accepted(op) ==
    last'.op = op /\ last'.err = "ok"

\* The well-formed batches of the voting inputs.
VotingBatches ==
    WellFormedBatches(VotingInputs.vals)

NonZeroTallies ==
    { i \in Options : _encryptedTallies[i] # ZeroHandle }

\* C1: while the survey is active and not past its deadline, a submitResponse with
\* a valid option index, or a submitBatchResponse with a well-formed non-empty
\* batch, from an address that has already responded reverts with
\* SurveyAlreadyAnswered and changes no tally, flag, vote list or permission.
C1_SecondResponseRejected ==
    [][ \A s \in Users :
          \/ /\ last'.err = "SurveyAlreadyAnswered"
             /\ UNCHANGED << _encryptedTallies, _hasResponded, _userVotes, acl >>
          \/ ~( /\ hasResponded(s)
                /\ surveyActive = "ok"
                /\ \/ /\ last'.op = "submitResponse"
                      /\ \E i \in Options, v \in VotingInputs.vals : submitResponse(s, i, v)
                   \/ /\ last'.op = "submitBatchResponse"
                      /\ \E b \in VotingBatches :
                            Len(b[1]) > 0 /\ submitBatchResponse(s, b[1], b[2], b[3]) ) ]_vars

C1_Witness ==
    /\ last.op \in { "submitResponse", "submitBatchResponse" }
    /\ last.err = "SurveyAlreadyAnswered"
    /\ \E a \in Users : hasResponded(a)

\* C2: after a successful submitBatchResponse(optionIndices, ...) by a,
\* hasResponded(a) is true and getUserVotes(a) equals optionIndices.
C2_BatchRecordsVotes ==
    [][ \A s \in Users :
          Accepted("submitBatchResponse")
          => \A b \in VotingBatches :
                submitBatchResponse(s, b[1], b[2], b[3])
                => (hasResponded(s))' /\ (getUserVotes(s))' = b[1] ]_vars

\* C3: every address listed by authorizedViewers() holds decrypt permission on the
\* current handle of every option whose tally is non-zero.
C3_ViewersHoldPermission ==
    \A k \in 1 .. Len(authorizedViewers), i \in NonZeroTallies :
        << _encryptedTallies[i], authorizedViewers[k] >> \in acl

\* a viewer other than the admin is listed while a tally is non-zero, after an
\* authorization that followed the vote or a vote that followed the authorization
C3_Witness ==
    /\ \E k \in 1 .. Len(authorizedViewers) : authorizedViewers[k] # admin
    /\ NonZeroTallies # {}
    /\ last.op \in { "authorizeViewer", "submitResponse" }
    /\ last.err = "ok"

\* C4: every address other than the contract that holds decrypt permission on the
\* current handle of an option is the admin or is currently authorized.
C4_OnlyAuthorizedHold ==
    \A i \in NonZeroTallies, a \in Users :
        << _encryptedTallies[i], a >> \in acl => (a = admin \/ Authorized(a))

\* C5: the admin is authorized in every reachable state: getViewerDetails(admin)
\* reports isAuthorized, hasValidAccess(admin) is true and admin is listed.
C5_AdminAuthorized ==
    /\ getViewerDetails(admin).isAuthorized
    /\ hasValidAccess(admin)
    /\ admin \in Range(authorizedViewers)

\* C6: the admin holds decrypt permission on the current handle of every option
\* whose tally is non-zero, whatever the viewer registry says about the admin.
C6_AdminHoldsPermission ==
    \A i \in NonZeroTallies : << _encryptedTallies[i], admin >> \in acl

\* a response was accepted after the admin's registry entry had expired
C6_Witness ==
    /\ Authorized(admin)
    /\ ~hasValidAccess(admin)
    /\ NonZeroTallies # {}
    /\ last.op = "submitResponse"
    /\ last.err = "ok"

\* C7: the number of accepted submissions of an address since its last successful
\* withdrawAndResubmit is at most one, and is one exactly when hasResponded is true.
C7_OneActiveResponse ==
    \A a \in Users :
        /\ accepted[a] <= 1
        /\ (accepted[a] = 1) <=> hasResponded(a)

\* an address that responded, withdrew and responded again
C7_Witness ==
    \E a \in Users : accepted[a] = 1 /\ submissions[a] = 2

\* C8: over any sequence of operations each address has at most one accepted
\* submission counted in the tallies.
C8_OneSubmissionCounted ==
    \A a \in Users : submissions[a] <= 1

\* C9: withdrawAndResubmit succeeds only for a caller that has responded while the
\* survey is active and not expired; afterwards the caller's flag is false and its
\* vote list empty, and its next submitResponse with a valid option, the survey
\* still active, is accepted and sets the flag again.
C9_WithdrawThenResubmit ==
    [][ \A s \in Users :
          /\ ( Accepted("withdrawAndResubmit") /\ withdrawAndResubmit(s) )
             => ( /\ hasResponded(s)
                  /\ isActive
                  /\ now <= surveyDeadline
                  /\ ~(hasResponded(s))'
                  /\ (getUserVotes(s))' = << >> )
          /\ ( /\ last'.op = "submitResponse"
               /\ submissions[s] > 0
               /\ accepted[s] = 0
               /\ isActive
               /\ now <= surveyDeadline
               /\ \E i \in Options, v \in VotingInputs.vals : submitResponse(s, i, v) )
             => ( last'.err = "ok" /\ (hasResponded(s))' ) ]_vars

\* a response accepted from an address that had withdrawn its earlier one
C9_Witness ==
    /\ last.op = "submitResponse"
    /\ last.err = "ok"
    /\ \E a \in Users :
          submissions[a] = 2 /\ hasResponded(a) /\ Len(getUserVotes(a)) = 1

\* C10: withdrawAndResubmit changes no tally handle and no decrypt permission, and
\* leaves the viewer registry, isActive, surveyDeadline and every other address's
\* respondent record unchanged.
C10_WithdrawFrame ==
    [][ \A s \in Users :
          ( Accepted("withdrawAndResubmit") /\ hasResponded(s) /\ ~(hasResponded(s))' )
          => ( /\ UNCHANGED << _encryptedTallies, acl, viewers, isAuthorized,
                              accessLevel, accessExpiry, isActive, surveyDeadline >>
               /\ \A a \in Users \ { s } :
                     /\ (hasResponded(a))' = hasResponded(a)
                     /\ (getUserVotes(a))' = getUserVotes(a) ) ]_vars

\* a withdrawal whose vote is still in the tallies
C10_Witness ==
    /\ last.op = "withdrawAndResubmit"
    /\ last.err = "ok"
    /\ NonZeroTallies # {}
    /\ \E a \in Users : submissions[a] > 0 /\ ~hasResponded(a)

\* C11: right after deployment every tally handle is the zero handle; there is one
\* tally per option at all times; the handle of option i leaves zero only in an
\* accepted response that selects i, and never returns to zero.
C11_TalliesLeaveZeroOnce ==
    [][ /\ last.op = "constructor" => \A i \in Options : getEncryptedTally(i) = ZeroHandle
        /\ DOMAIN _encryptedTallies = 0 .. (optionsCount - 1)
        /\ (DOMAIN _encryptedTallies)' = 0 .. (optionsCount - 1)
        /\ \A i \in Options :
              /\ _encryptedTallies[i] # ZeroHandle => _encryptedTallies'[i] # ZeroHandle
              /\ (_encryptedTallies[i] = ZeroHandle /\ _encryptedTallies'[i] # ZeroHandle)
                 => \/ /\ Accepted("submitResponse")
                       /\ \E s \in VotingInputs.voters, v \in VotingInputs.vals :
                             submitResponse(s, i, v)
                    \/ /\ Accepted("submitBatchResponse")
                       /\ \E s \in VotingInputs.voters, b \in VotingBatches :
                             i \in Range(b[1]) /\ submitBatchResponse(s, b[1], b[2], b[3]) ]_vars

\* a response was withdrawn: its option's tally is still non-zero, another option's
\* tally is still zero
C11_Witness ==
    /\ last.op = "withdrawAndResubmit"
    /\ last.err = "ok"
    /\ \E i, j \in Options :
          _encryptedTallies[i] # ZeroHandle /\ _encryptedTallies[j] = ZeroHandle

\* The admin-only functions, as the receipts name them.
AdminOps ==
    { "authorizeViewer", "authorizeViewerWithRole", "revokeViewer", "closeSurvey",
      "reopenSurvey", "extendDeadline" }

\* C12: a call of authorizeViewer, authorizeViewerWithRole, revokeViewer,
\* closeSurvey, reopenSurvey or extendDeadline from an address other than the admin
\* reverts with OnlyAdmin and changes no state, whatever role tier the caller holds
\* in the viewer registry.
C12_OnlyAdminCalls ==
    [][ \A s \in Users \ { admin } :
          \/ last'.err = "OnlyAdmin" /\ UNCHANGED << now, storage >>
          \/ last'.op \notin AdminOps
          \/ ~( \/ \E v \in AdminInputs.viewers : authorizeViewer(s, v)
                \/ \E v \in AdminInputs.viewers, r \in AdminInputs.roles,
                      e \in AdminInputs.expiries : authorizeViewerWithRole(s, v, r, e)
                \/ \E v \in AdminInputs.viewers : revokeViewer(s, v)
                \/ closeSurvey(s)
                \/ reopenSurvey(s)
                \/ \E d \in Times : extendDeadline(s, d) ) ]_vars

\* a registered viewer of the Admin role tier, with valid access, was refused
C12_Witness ==
    /\ last.err = "OnlyAdmin"
    /\ last.op \in { "closeSurvey", "revokeViewer", "authorizeViewerWithRole" }
    /\ \E a \in Users \ { admin } :
          getViewerDetails(a).role = ViewerRole.Admin /\ hasValidAccess(a)

ResponseOps ==
    { "submitResponse", "submitBatchResponse", "withdrawAndResubmit" }

\* C13: while the survey is closed (from an accepted closeSurvey to the next
\* accepted reopenSurvey) or the block time is later than surveyDeadline (until an
\* accepted extendDeadline), every submitResponse, submitBatchResponse and
\* withdrawAndResubmit reverts, and no tally handle, hasResponded flag or vote list
\* changes.
C13_ClosedOrExpiredRejects ==
    [][ /\ (~isActive \/ now > surveyDeadline)
           => /\ UNCHANGED << _encryptedTallies, _hasResponded, _userVotes >>
              /\ last'.op \in ResponseOps
                 => last'.err = IF ~isActive THEN "SURVEY_NOT_ACTIVE" ELSE "SURVEY_EXPIRED"
        /\ Accepted("closeSurvey") => ~isActive'
        /\ (~isActive /\ isActive') => Accepted("reopenSurvey")
        /\ (isActive /\ ~isActive') => Accepted("closeSurvey")
        /\ (now > surveyDeadline /\ ~(now' > surveyDeadline'))
           => Accepted("extendDeadline") ]_vars

\* a respondent's call was refused after the deadline although the survey is active
C13_Witness ==
    /\ last.op \in ResponseOps
    /\ last.err = "SURVEY_EXPIRED"
    /\ isActive
    /\ \E a \in Users : hasResponded(a)

\* C14: closeSurvey by the admin ends with isActive false; reopenSurvey by the
\* admin ends with isActive true exactly when the block time is not later than
\* surveyDeadline and otherwise reverts leaving isActive unchanged; neither changes
\* surveyDeadline, a tally, a respondent record or the viewer registry.
C14_CloseAndReopen ==
    [][ /\ closeSurvey(admin) => (last'.err = "ok" /\ ~isActive')
        /\ reopenSurvey(admin)
           => IF now <= surveyDeadline
              THEN last'.err = "ok" /\ isActive'
              ELSE last'.err = "DEADLINE_PASSED" /\ isActive' = isActive
        /\ (closeSurvey(admin) \/ reopenSurvey(admin))
           => UNCHANGED << surveyDeadline, _encryptedTallies, _hasResponded, _userVotes,
                           viewers, isAuthorized, accessLevel, accessExpiry >> ]_vars

\* the admin's reopenSurvey was refused after the deadline, the survey staying closed
C14_Witness ==
    /\ last.op = "reopenSurvey"
    /\ last.err = "DEADLINE_PASSED"
    /\ ~isActive
    /\ NonZeroTallies # {}

\* C15: for an option index >= optionsCount(), getOptionLabel and getEncryptedTally
\* revert with InvalidOption, and submitResponse on an active, unexpired survey
\* reverts with InvalidOption changing no tally, flag, vote list or permission; for
\* an index < optionsCount() the getters return the stored label and handle.
C15_InvalidOptionRejected ==
    [][ /\ \A i \in 0 .. (optionsCount + 1) :
              IF i >= optionsCount
              THEN /\ getOptionLabel(i) = "InvalidOption"
                   /\ getEncryptedTally(i) = "InvalidOption"
              ELSE /\ getOptionLabel(i) = _options[i]
                   /\ getEncryptedTally(i) = _encryptedTallies[i]
        /\ \A s \in VotingInputs.voters, i \in IndexArgs \ Options, v \in VotingInputs.vals :
              (isActive /\ now <= surveyDeadline /\ submitResponse(s, i, v))
              => /\ last'.err = "InvalidOption"
                 /\ UNCHANGED << _encryptedTallies, _hasResponded, _userVotes, acl >> ]_vars

\* an out-of-range response from an address that had already responded was refused
\* for its index
C15_Witness ==
    /\ last.op = "submitResponse"
    /\ last.err = "InvalidOption"
    /\ \A a \in VotingInputs.voters : hasResponded(a)

\* C16: after an accepted authorizeViewerWithRole(v, role, expiry) of the admin,
\* getViewerDetails(v) reports isAuthorized, the role passed and the expiry passed,
\* for every role and expiry and also for a viewer authorized before with another
\* role or expiry; hasValidAccess(v) is true when expiry is 0 or not earlier than
\* the block time.
C16_DetailsAsPassed ==
    [][ \A v \in RoleInputs.viewers, r \in RoleInputs.roles, e \in RoleInputs.expiries :
          (Accepted("authorizeViewerWithRole") /\ authorizeViewerWithRole(admin, v, r, e))
          => /\ (getViewerDetails(v))'.isAuthorized
             /\ (getViewerDetails(v))'.role = r
             /\ (getViewerDetails(v))'.expiry = e
             /\ (e = 0 \/ e >= now) => (hasValidAccess(v))' ]_vars

\* The handles on which address a holds decrypt permission.
Permitted(a) ==
    { p[1] : p \in { q \in acl : q[2] = a } }

\* C17: after an accepted revokeViewer(v) of the admin, getViewerDetails(v) reports
\* isAuthorized false, role 0 and expiry 0, hasValidAccess(v) is false, v is not
\* listed by authorizedViewers() and every other address listed before is listed
\* exactly once; a submission grants no decrypt permission to an address that is
\* neither the admin nor authorized; revokeViewer of an address that is not
\* authorized reverts and changes nothing.
C17_RevokedViewer ==
    [][ \A v \in AdminInputs.viewers :
          /\ (Accepted("revokeViewer") /\ revokeViewer(admin, v))
             => /\ ~(getViewerDetails(v))'.isAuthorized
                /\ (getViewerDetails(v))'.role = 0
                /\ (getViewerDetails(v))'.expiry = 0
                /\ ~(hasValidAccess(v))'
                /\ v \notin Range(authorizedViewers')
                /\ \A a \in Range(authorizedViewers) \ { v } :
                      Cardinality({ k \in 1 .. Len(authorizedViewers') :
                                      authorizedViewers'[k] = a }) = 1
          /\ (~Authorized(v) /\ revokeViewer(admin, v))
             => /\ last'.err = "VIEWER_NOT_AUTHORIZED"
                /\ UNCHANGED << now, storage >>
          /\ ( /\ last'.op \in { "submitResponse", "submitBatchResponse" }
               /\ v # admin
               /\ ~Authorized(v) )
             => (Permitted(v))' = Permitted(v) ]_vars

\* the first listed viewer was revoked while another one was listed behind it, and
\* a response was accepted afterwards
C17_Witness ==
    /\ last.op = "submitResponse"
    /\ last.err = "ok"
    /\ authorizedViewers = << "bob" >>
    /\ ~Authorized(admin)
    /\ Permitted("bob") # {}

\* C18: each busy flag of the hook is true exactly while at least one call of
\* its function is outstanding (it has passed its guards and has not finished),
\* also when two calls of the same function overlap.
Outstanding(kind) ==
    \E c \in CallIds : calls[c].kind = kind /\ calls[c].pc # "idle"

C18_FlagsTrackCalls ==
    /\ hook.isSubmitting = Outstanding("submitResponse")
    /\ hook.isDecrypting = Outstanding("decryptTallies")
    /\ hook.isAuthorizing = Outstanding("authorizeViewer")
    /\ hook.isBatchSubmitting = Outstanding("submitBatchResponse")

\* C19: once every refreshSurvey call has completed without error and no
\* transaction was mined after the most recently started one began, the fields
\* of the hook equal the contract's current values for the connected account,
\* also when refreshSurvey calls overlap and complete out of order.
C19_MirrorsContract ==
    ( /\ sync.refreshed
      /\ ~sync.failed
      /\ ~sync.mined
      /\ \A c \in CallIds : ~Refreshing(c) )
    => /\ hook.encryptedTallies = getAllEncryptedTallies
       /\ hook.authorizedViewers = authorizedViewers
       /\ hook.isActive = isActive
       /\ hook.surveyDeadline = surveyDeadline
       /\ hook.hasResponded = hasResponded(OverlapInputs.account)
       /\ hook.userVotes = getUserVotes(OverlapInputs.account)

\* C20: every mutating function of the hook goes through its steps in order:
\* encrypt (submissions only), send the transaction, wait for it, refreshSurvey.
\* refreshSurvey starts only from a transaction that was mined successfully; a
\* call whose encryption, sending or transaction fails ends without it, and a
\* call rejected by a guard starts nothing.
C20_Order(c) ==
    LET p == calls[c].pc
        q == calls'[c].pc
        k == IF p = "idle" THEN calls'[c].kind ELSE calls[c].kind
    IN (k \in MutatingKinds /\ p # q) =>
          CASE p = "idle" -> q = (IF k \in SubmissionKinds THEN "encrypt" ELSE "send")
            [] p = "encrypt" -> q \in { "send", "idle" }
            [] p = "send" -> q \in { "wait", "idle" }
            [] p = "wait" -> \/ q = "mined" /\ Accepted(k)
                             \/ q = "reverted" /\ last'.op = k /\ last'.err # "ok"
                             \/ q = "idle"
            [] p = "mined" -> q = "read" /\ hook'.isFetching
            [] p = "reverted" -> q = "idle"
            [] OTHER -> p \in RefreshPcs /\ q \in RefreshPcs \cup { "idle" }

C20_Rejected ==
    (hook'.message # hook.message /\ hook'.message.at \in { "disconnected", "invalid" })
    => /\ calls' = calls
       /\ hook'.isFetching = hook.isFetching

C20_SendWaitRefresh ==
    [][ C20_Rejected /\ \A c \in CallIds : C20_Order(c) ]_vars

\* A response was encrypted, sent and mined, and its refreshSurvey has begun:
\* the contract has the response, the hook not yet.
C20_Witness ==
    \E c \in CallIds :
        /\ calls[c].kind = "submitResponse"
        /\ calls[c].pc = "read"
        /\ hook.message = Message("submitResponse", "succeeded")
        /\ hasResponded(HookInputs.account)
        /\ ~hook.hasResponded

\* The hook functions that have a busy flag.
FlaggedKinds ==
    { "submitResponse", "submitBatchResponse", "decryptTallies", "authorizeViewer" }

\* A call of a flagged function ends (p is where it was): the flag is cleared;
\* ending from an await of its own try block other than by success, the message
\* is the function's failure text.
C21_Ends(c) ==
    LET p == calls[c].pc
        k == calls[c].kind
    IN (p # "idle" /\ calls'[c].pc = "idle") =>
          /\ calls'[c] = Idle
          /\ k \in FlaggedKinds => ~hook'[Flag(k)]
          /\ (k \in FlaggedKinds /\ p \in { "encrypt", "send", "wait", "reverted" })
                => hook'.message = Message(k, "failed")
          /\ p = "sign" => hook'.message.at \in { "failed", "unsigned" }
          /\ p = "decrypt" => hook'.message.at \in { "failed", "succeeded" }
          /\ p \in RefreshPcs => ~hook'.isFetching

\* C21: an exception of the SDK, the signer or the contract call inside
\* submitResponse, submitBatchResponse, decryptTallies or authorizeViewer is
\* caught: the call ends, message is the function's failure text and its busy
\* flag is false; isFetching is false when refreshSurvey has ended, succeeded or
\* failed.
C21_FailuresCaught ==
    [][ \A c \in CallIds : C21_Ends(c) ]_vars

\* The contract reverted the response of the hook: the call has ended with the
\* failure text and the flag cleared.
C21_Witness ==
    /\ last.op = "submitResponse"
    /\ last.err # "ok"
    /\ \A c \in CallIds : calls[c].pc = "idle"
    /\ hook.message = Message("submitResponse", "failed")
    /\ ~hook.isSubmitting
    /\ ~hook.isFetching

\* C22: the fallback script is injected only after the primary has failed, and
\* every load() call that rejects has tried the fallback and rejects only after
\* both URLs have failed, also a call made after an earlier one has failed.
C22_FallbackBeforeReject ==
    /\ loader.fallback # "none"
          => loader.primary \in { "loaded", "error" }
    /\ \A l \in LoadIds :
          loader.loads[l].pc = "rejected"
             => /\ loader.loads[l].tried
                /\ loader.primary \in { "loaded", "error" }
                /\ loader.fallback \in { "loaded", "error" }
                /\ ~isFhevmWindowType(loader)

\* The well-formed batches of the value inputs.
ValueBatches ==
    WellFormedBatches(ValueInputs.vals)

\* The clear value of option i's tally.
PlainTally(i) ==
    Plain(_encryptedTallies[i])

\* Number of times option i appears in a batch's indices.
Occurrences(optionIndices, i) ==
    Cardinality({ k \in 1 .. Len(optionIndices) : optionIndices[k] = i })

\* C23: an accepted submitResponse increases the clear tally of the selected
\* option by exactly 1 and leaves the other clear tallies unchanged, whatever
\* value the caller encrypted; an accepted submitBatchResponse increases each
\* option's clear tally by the number of times the option appears in the batch.
C23_VoteCountsOne ==
    [][ /\ \A s \in ValueInputs.voters, i \in Options, v \in ValueInputs.vals :
              (Accepted("submitResponse") /\ submitResponse(s, i, v))
                 => \A j \in Options :
                       (PlainTally(j))' = IF j = i THEN Add32(PlainTally(j), One)
                                          ELSE PlainTally(j)
        /\ \A s \in ValueInputs.voters, b \in ValueBatches :
              (Accepted("submitBatchResponse") /\ submitBatchResponse(s, b[1], b[2], b[3]))
                 => \A j \in Options :
                       (PlainTally(j))' = Add32(PlainTally(j), << 0, Occurrences(b[1], j) >>) ]_vars

\* Sum modulo 2^32 of the batch's vote values at the positions that select option i.
RECURSIVE BatchSum(_, _, _)
BatchSum(optionIndices, encryptedVotes, i) ==
    IF Len(optionIndices) = 0 THEN << 0, 0 >>
    ELSE LET rest == BatchSum(Tail(optionIndices), Tail(encryptedVotes), i)
         IN IF Head(optionIndices) = i THEN Add32(Head(encryptedVotes), rest) ELSE rest

\* C24: the clear tally of option i is the sum modulo 2^32 of the clear values of
\* all accepted votes for i: it starts at zero, an accepted submitResponse adds
\* its value to the selected option only, an accepted submitBatchResponse adds to
\* each option the values at the positions that select it, and no other
\* operation (a withdrawal included) changes a clear tally.
C24_TallyIsSumOfVotes ==
    /\ \A i \in Options : PlainTally(i) = << 0, 0 >>
    /\ [][ /\ Accepted("submitResponse")
                 => \A s \in ValueInputs.voters, i \in Options, v \in ValueInputs.vals :
                       submitResponse(s, i, v)
                          => \A j \in Options :
                                (PlainTally(j))' = IF j = i THEN Add32(PlainTally(j), v)
                                                   ELSE PlainTally(j)
           /\ Accepted("submitBatchResponse")
                 => \A s \in ValueInputs.voters, b \in ValueBatches :
                       \/ Len(b[1]) # VotesCast' - VotesCast
                       \/ ~submitBatchResponse(s, b[1], b[2], b[3])
                       \/ \A j \in Options :
                             (PlainTally(j))' =
                                 Add32(PlainTally(j), BatchSum(b[1], b[2], j))
           /\ (~Accepted("submitResponse") /\ ~Accepted("submitBatchResponse"))
                 => \A j \in Options : (PlainTally(j))' = PlainTally(j) ]_vars

\* a tally that wrapped around to zero over the vote of a respondent who withdrew
\* and the vote the respondent cast afterwards
C24_Witness ==
    \E a \in Users, i \in Options :
        /\ submissions[a] = 2
        /\ Len(_encryptedTallies[i]) = 2
        /\ PlainTally(i) = << 0, 0 >>

\* The reasons for which submitBatchResponse reverts.
BatchErrors ==
    { "SURVEY_NOT_ACTIVE", "SURVEY_EXPIRED", "ARRAY_LENGTH_MISMATCH", "EMPTY_BATCH",
      "SurveyAlreadyAnswered", "InvalidOption" }

\* C25: a submitBatchResponse call that fails, for whichever reason, leaves every
\* tally handle, every decrypt permission, every hasResponded flag and every vote
\* list as before the call, the tallies of the valid indices that precede an
\* out-of-range index included.
C25_FailedBatchChangesNothing ==
    [][ (last'.op = "submitBatchResponse" /\ last'.err # "ok")
           => /\ last'.err \in BatchErrors
              /\ UNCHANGED << _encryptedTallies, acl, _hasResponded, _userVotes >> ]_vars

\* a batch was rejected for an out-of-range index after a response had been counted
C25_Witness ==
    /\ last.op = "submitBatchResponse"
    /\ last.err = "InvalidOption"
    /\ VotesCast > 0

\* The viewer's entry carries an expiry that the block time has passed.
Expired(viewer) ==
    accessExpiry[viewer] > 0 /\ now > accessExpiry[viewer]

\* C26: once the block time has passed a viewer's non-zero accessExpiry,
\* hasValidAccess(viewer) and getViewerDetails(viewer).hasAccess are false, and an
\* accepted submission grants the viewer no decrypt permission on the tally
\* handles it produces.
C26_ExpiredViewerGetsNothing ==
    [][ \A v \in ExpiryInputs.viewers :
           Expired(v)
              => /\ ~hasValidAccess(v)
                 /\ ~getViewerDetails(v).hasAccess
                 /\ (Accepted("submitResponse") \/ Accepted("submitBatchResponse"))
                       => \A i \in Options :
                             _encryptedTallies'[i] # _encryptedTallies[i]
                                => << _encryptedTallies'[i], v >> \notin acl' ]_vars

\* C26, the part the contract keeps: an expired entry is reported as without access.
C26_ExpiredViewerReported ==
    \A v \in ExpiryInputs.viewers :
        Expired(v) => ~hasValidAccess(v) /\ ~getViewerDetails(v).hasAccess

\* The external calls that authorize a viewer.
AuthorizeOps ==
    { "authorizeViewer", "authorizeViewerWithRole" }

\* The viewer registry is a set whose members are the authorized addresses.
RegistryIsSet ==
    /\ \A j, k \in 1 .. Len(authorizedViewers) :
          authorizedViewers[j] = authorizedViewers[k] => j = k
    /\ ZeroAddress \notin Range(authorizedViewers)
    /\ \A a \in Users : a \in Range(authorizedViewers) <=> isAuthorized[a]
    /\ getSurveyMetadata.viewerCount = Cardinality({ a \in Users : isAuthorized[a] })

\* C27: the viewer registry is a set: authorizedViewers() lists no address twice
\* and never the zero address, an address is listed exactly when its isAuthorized
\* flag is true, and getSurveyMetadata().viewerCount is the number of authorized
\* addresses; authorizing an authorized viewer adds no second entry, and
\* authorizing the zero address reverts with InvalidViewer.
C27_RegistryIsSet ==
    /\ RegistryIsSet
    /\ [][ /\ RegistryIsSet'
           /\ \A v \in AccessInputs.viewers :
                 (last'.op \in AuthorizeOps /\ last'.err = "ok"
                  /\ \/ authorizeViewer(admin, v)
                     \/ authorizeViewerWithRole(admin, v, ViewerRole.Basic, 0))
                    => /\ v # ZeroAddress
                       /\ isAuthorized[v] => authorizedViewers' = authorizedViewers
           /\ (last'.op \in AuthorizeOps
               /\ \/ authorizeViewer(admin, ZeroAddress)
                  \/ authorizeViewerWithRole(admin, ZeroAddress, ViewerRole.Basic, 0))
                 => last'.err = "InvalidViewer" ]_vars

\* an accepted authorization with the admin and one more viewer listed
C27_Witness ==
    /\ last.op \in AuthorizeOps
    /\ last.err = "ok"
    /\ Len(authorizedViewers) = 2
    /\ getSurveyMetadata.viewerCount = 2

\* The list without the given address, the order of the others kept.
Without(list, viewer) ==
    LET Other(a) == a # viewer
    IN SelectSeq(list, Other)

\* C28: after an accepted revokeViewer(v) the addresses that remain in
\* authorizedViewers() stand in the same relative order as before the call,
\* wherever v stood in the list.
C28_RevokeKeepsOrder ==
    [][ Accepted("revokeViewer")
           => \A v \in OrderInputs.viewers :
                 revokeViewer(admin, v) => authorizedViewers' = Without(authorizedViewers, v) ]_vars

\* C28, what the removal does keep: the remaining addresses as a set.
C28_RevokeKeepsOthers ==
    [][ Accepted("revokeViewer")
           => \A v \in OrderInputs.viewers :
                 revokeViewer(admin, v)
                    => /\ Range(authorizedViewers') = Range(authorizedViewers) \ { v }
                       /\ Len(authorizedViewers') = Len(authorizedViewers) - 1 ]_vars

\* C29: surveyDeadline never decreases: extendDeadline(d) of the admin succeeds
\* exactly when d is greater than the current surveyDeadline, whether the survey
\* is active or closed and whether the deadline has passed or not, and then sets
\* surveyDeadline to d and leaves isActive alone; no other operation changes
\* surveyDeadline.
C29_DeadlineOnlyGrows ==
    [][ /\ surveyDeadline' >= surveyDeadline
        /\ last'.op = "extendDeadline"
              => \A d \in Times :
                    extendDeadline(admin, d)
                       => IF d > surveyDeadline
                          THEN /\ last'.err = "ok"
                               /\ surveyDeadline' = d
                               /\ isActive' = isActive
                          ELSE /\ last'.err = "NEW_DEADLINE_MUST_BE_LATER"
                               /\ surveyDeadline' = surveyDeadline
        /\ ~Accepted("extendDeadline") => surveyDeadline' = surveyDeadline ]_vars

\* the admin extended the deadline of a closed survey after the deadline had passed
C29_Witness ==
    /\ last.op = "extendDeadline"
    /\ last.err = "ok"
    /\ ~isActive
    /\ now = surveyDeadline
    /\ surveyDeadline > 1

\* The counts a caller may pass to getTopOptions: 0 to one more than the options.
CountArgs ==
    0 .. (OptionCount + 1)

\* C30: getTopOptions(count) reverts with INVALID_COUNT unless
\* 1 <= count <= optionsCount(); otherwise it returns exactly count indices, each
\* the index of an option whose tally is non-zero, and no index twice.
C30_TopOptionsAreVoted ==
    \A count \in CountArgs :
        LET r == getTopOptions(count)
        IN IF ~(1 <= count /\ count <= optionsCount) THEN r.err = "INVALID_COUNT"
           ELSE /\ r.err = "ok"
                /\ Len(r.topIndices) = count
                /\ \A k \in 1 .. count :
                      /\ r.topIndices[k] \in Options
                      /\ _encryptedTallies[r.topIndices[k]] # ZeroHandle
                /\ \A j, k \in 1 .. count : r.topIndices[j] = r.topIndices[k] => j = k

\* C30, what the function does return: count entries of which the first
\* min(count, number of voted options) are the voted options in index order, and
\* the others are 0.
C30_TopOptionsPadded ==
    \A count \in CountArgs :
        LET r == getTopOptions(count)
            voted == { i \in Options : _encryptedTallies[i] # ZeroHandle }
        IN IF ~(1 <= count /\ count <= optionsCount) THEN r.err = "INVALID_COUNT"
           ELSE /\ r.err = "ok"
                /\ Len(r.topIndices) = count
                /\ \A k \in 1 .. count :
                      IF k <= Cardinality(voted)
                      THEN /\ r.topIndices[k] \in voted
                           /\ Cardinality({ i \in voted : i < r.topIndices[k] }) = k - 1
                      ELSE r.topIndices[k] = 0

\* The addresses that have an accepted response.
Respondents ==
    { a \in Users : submissions[a] > 0 }

\* C31: getSurveyStats().participantCount and getResultSummary().totalParticipants
\* are equal to each other and to the number of distinct addresses that have an
\* accepted response.
C31_ParticipantsCounted ==
    /\ getSurveyStats.participantCount = getResultSummary.totalParticipants
    /\ getSurveyStats.participantCount = Cardinality(Respondents)

\* C31, what the two functions do count: the options that received a vote.
C31_VotedOptionsCounted ==
    /\ getSurveyStats.participantCount = getResultSummary.totalParticipants
    /\ getSurveyStats.participantCount
          = Cardinality({ i \in Options : _encryptedTallies[i] # ZeroHandle })

\* C32: for every address a, getUserVotes(a) is non-empty only if hasResponded(a)
\* is true, every index it holds is smaller than optionsCount(), and it is empty
\* from a's accepted withdrawAndResubmit until a's next accepted submission.
C32_VoteListFollowsFlag ==
    \A a \in Users :
        /\ Len(getUserVotes(a)) > 0 => hasResponded(a)
        /\ \A k \in 1 .. Len(getUserVotes(a)) :
              getUserVotes(a)[k] >= 0 /\ getUserVotes(a)[k] < optionsCount
        /\ (submissions[a] > 0 /\ accepted[a] = 0) => getUserVotes(a) = << >>

\* one respondent has withdrawn and holds no votes while another holds its vote
C32_Witness ==
    \E a, b \in Users :
        /\ submissions[a] > 0 /\ accepted[a] = 0
        /\ getUserVotes(a) = << >>
        /\ hasResponded(b) /\ Len(getUserVotes(b)) = 1

\* C33: an accepted submitResponse(i, ...) of address a changes only the tally
\* handle of option i, the decrypt permissions on that new handle, and a's own
\* hasResponded flag and vote list: the handles of the other options, the
\* respondent records of the other addresses, the permissions on other handles,
\* the viewer registry, isActive and surveyDeadline are as before.
C33_SubmitFrame ==
    [][ Accepted("submitResponse")
           => \A a \in VotingInputs.voters, i \in Options, v \in VotingInputs.vals :
                 submitResponse(a, i, v)
                    => /\ _encryptedTallies'[i] # _encryptedTallies[i]
                       /\ \A j \in Options \ { i } :
                             _encryptedTallies'[j] = _encryptedTallies[j]
                       /\ acl \subseteq acl'
                       /\ \A p \in acl' \ acl : p[1] = _encryptedTallies'[i]
                       /\ hasResponded(a)' /\ getUserVotes(a)' = Append(getUserVotes(a), i)
                       /\ \A b \in Users \ { a } :
                             /\ _hasResponded'[b] = _hasResponded[b]
                             /\ _userVotes'[b] = _userVotes[b]
                       /\ UNCHANGED << viewers, isAuthorized, accessLevel, accessExpiry,
                                       isActive, surveyDeadline >> ]_vars

\* a response was accepted while another address had responded and another option
\* held votes
C33_Witness ==
    /\ last.op = "submitResponse"
    /\ last.err = "ok"
    /\ \E a, b \in Users : a # b /\ Len(getUserVotes(a)) = 1 /\ Len(getUserVotes(b)) = 1
    /\ \A i \in Options : _encryptedTallies[i] # ZeroHandle

\* Entry i of decryptedTallies belongs to the handle mirrored at i: 0 for a zero
\* handle, the handle's clear value, or null where the SDK returned no value.
DecryptionOf(handle, value) ==
    IF value = Null THEN handle # ZeroHandle
    ELSE value = Plain(handle)

\* C34: whenever the hook's decryptedTallies is non-empty it is as long as
\* encryptedTallies and entry i is the decryption of the currently mirrored
\* handle encryptedTallies[i]: values decrypted from older handles are not left
\* in decryptedTallies when a refresh changes encryptedTallies.
C34_DecryptedMatchesMirror ==
    hook.decryptedTallies # << >>
       => /\ Len(hook.decryptedTallies) = Len(hook.encryptedTallies)
          /\ \A i \in DOMAIN hook.decryptedTallies :
                DecryptionOf(hook.encryptedTallies[i], hook.decryptedTallies[i])

\* decryptTallies is called and passes its connection guard.
C35_Called ==
    /\ hook.ethersSigner
    /\ \E c \in CallIds : Invoke(c, "decryptTallies", << >>)

\* Every handle of the mirror is the zero handle.
C35_AllZero ==
    \A i \in DOMAIN hook.encryptedTallies : hook.encryptedTallies[i] = ZeroHandle

\* C35: decryptTallies produces one entry per option: 0 for a zero handle, the
\* SDK's value for a handle of the decryption result, null for a non-zero handle
\* absent from it.  When every handle is zero it sets all entries to 0 and neither
\* asks for a signature, nor calls userDecrypt, nor sets isDecrypting; when no
\* signature is obtained it leaves decryptedTallies as it is and isDecrypting false.
C35_DecryptOutcome ==
    [][ /\ (C35_Called /\ C35_AllZero)
              => /\ hook'.decryptedTallies =
                       [ i \in DOMAIN hook.encryptedTallies |-> << 0, 0 >> ]
                 /\ hook'.isDecrypting = hook.isDecrypting
                 /\ calls' = calls
        /\ (C35_Called /\ ~C35_AllZero)
              => /\ hook'.isDecrypting
                 /\ hook'.decryptedTallies = hook.decryptedTallies
                 /\ \E c \in CallIds :
                       /\ calls[c].pc = "idle" /\ calls'[c].pc = "sign"
                       /\ calls'[c].snap.tallies = hook.encryptedTallies
        /\ \A c \in CallIds :
              (calls[c].kind = "decryptTallies" /\ calls'[c].pc = "idle")
                 => CASE calls[c].pc = "sign" /\ hook'.message = Message("decryptTallies", "unsigned") ->
                           /\ hook'.decryptedTallies = hook.decryptedTallies
                           /\ ~hook'.isDecrypting
                      [] calls[c].pc = "decrypt" /\ hook'.message = Message("decryptTallies", "succeeded") ->
                           /\ ~hook'.isDecrypting
                           /\ DOMAIN hook'.decryptedTallies = DOMAIN calls[c].snap.tallies
                           /\ \A i \in DOMAIN calls[c].snap.tallies :
                                 DecryptionOf(calls[c].snap.tallies[i], hook'.decryptedTallies[i])
                      [] OTHER -> hook'.decryptedTallies = hook.decryptedTallies ]_vars

\* a decryption that returned the clear tally of the voted option and 0 for the
\* option without votes
C35_Witness ==
    /\ hook.message = Message("decryptTallies", "succeeded")
    /\ Len(hook.decryptedTallies) = OptionCount
    /\ \E i, j \in DOMAIN hook.decryptedTallies :
          /\ hook.encryptedTallies[i] # ZeroHandle
          /\ hook.decryptedTallies[i] # Null
          /\ hook.decryptedTallies[i] = One
          /\ hook.encryptedTallies[j] = ZeroHandle
          /\ hook.decryptedTallies[j] # Null
          /\ hook.decryptedTallies[j] = << 0, 0 >>

\* a decryption whose result lacked the handle of the voted option
C35_WitnessNull ==
    /\ hook.message = Message("decryptTallies", "succeeded")
    /\ \E i \in DOMAIN hook.decryptedTallies : hook.decryptedTallies[i] = Null

\* C36: for every non-empty list of option indices the hook's submitBatchResponse
\* calls the contract with three arrays as long as the list, so that the
\* contract's ARRAY_LENGTH_MISMATCH and EMPTY_BATCH checks pass.
C36_BatchArraysAgree ==
    [][ \A c \in CallIds :
           (/\ calls[c].kind = "submitBatchResponse"
            /\ calls[c].pc = "wait"
            /\ calls'[c].pc \in { "mined", "reverted" }
            /\ Len(calls[c].arg) > 0)
              => last'.err \notin { "ARRAY_LENGTH_MISMATCH", "EMPTY_BATCH" } ]_vars

\* C36, what the hook does guarantee: an empty list never reaches the contract.
C36_EmptyListNotSent ==
    \A c \in CallIds :
        (calls[c].kind = "submitBatchResponse" /\ calls[c].pc # "idle")
           => Len(calls[c].arg) > 0

\* A script injected by a load() call has not finished loading.
ScriptPending ==
    loader.primary = "loading" \/ loader.fallback = "loading"

\* C37: a load() made while an earlier call is waiting for its injected script
\* does not reject on account of the pending script, and once the SDK is
\* available and no script is pending every call made has resolved.
C37_LaterLoadWaits ==
    /\ ScriptPending => \A l \in LoadIds : loader.loads[l].pc # "rejected"
    /\ (isFhevmWindowType(loader) /\ ~ScriptPending)
          => \A l \in LoadIds : loader.loads[l].pc \in { "idle", "resolved", "thrown" }

\* C37, what does hold of concurrent calls: each script is injected by one call
\* at most, so one call at most waits for each script.
C37_OneCallPerScript ==
    \A l, m \in LoadIds :
        (loader.loads[l].pc = loader.loads[m].pc /\ loader.loads[l].pc \in { "primary", "fallback" })
           => l = m

\* window.relayerSDK is a valid SDK object: initSDK and createInstance are
\* functions, SepoliaConfig is an object, __initialized__ is absent or a boolean.
C38_ValidSDK(o) ==
    /\ o.kind = "object"
    /\ o.initSDK = "function"
    /\ o.createInstance = "function"
    /\ o.SepoliaConfig = "object"
    /\ o.__initialized__ \in { "missing", "true", "false" }

\* C38: the promise returned by load() resolves only in a state where
\* window.relayerSDK is a valid SDK object, whichever path is taken: SDK already
\* present, script tag already present, primary script loaded, fallback script
\* loaded.
C38_ResolvesOnValidSDK ==
    [][ \A l \in LoadIds :
           (loader.loads[l].pc # "resolved" /\ loader'.loads[l].pc = "resolved")
              => C38_ValidSDK(loader'.relayerSDK) ]_vars

\* one call resolved on the fallback script after the primary had left a value of
\* the wrong shape, another on the SDK found present
C38_Witness ==
    \E l, m \in LoadIds :
        /\ loader.loads[l].pc = "resolved"
        /\ loader.loads[l].tried
        /\ loader.primary = "loaded"
        /\ loader.fallback = "loaded"
        /\ l # m
        /\ loader.loads[m].pc = "resolved"
        /\ ~loader.loads[m].tried

\* C39: readDeployment terminates for every input: for chain id 31337 with no
\* deployment file it runs the deploy script at most once and then returns the
\* deployment or exits with an error, on win32 (where the script is skipped) and
\* when the script succeeds without producing a deployment file as well: it does
\* not try a second time and does not use up the stack.
C39_DeploysOnce ==
    /\ genabi.runs <= 1
    /\ genabi.depth >= 1 => genabi.pc \in { "readDeployment", "returned", "exited" }
    /\ genabi.pc = "returned" /\ genabi.chainId = HardhatChainId
          => genabi.returned \in ChainNames

\* C39, where readDeployment does end: for a chain id other than 31337 it never
\* deploys, and for 31337 a call that finds a deployment file returns it.
C39_EndsWithoutDeploying ==
    /\ (genabi.pc # "idle" /\ genabi.chainId # HardhatChainId)
          => /\ genabi.runs = 0
             /\ genabi.depth = 0
             /\ genabi.pc \in { "readDeployment", "returned", "exited" }
    /\ genabi.pc = "returned" /\ genabi.returned \in ChainNames
          => genabi.returned \in genabi.files

====
